---- MODULE Spec2Model ----
(***************************************************************************)
(* Model of the asbestos-detection service (src/api/main.py) and of the    *)
(* tile acquisition / compositing code it shares with the MapParser        *)
(* scripts.                                                                *)
(*                                                                         *)
(* Spec      : the service: startup, /predict and /batch_predict requests, *)
(*             the global semaphore, the coordinate-level acquisition      *)
(*             tasks, chunked inference and the result list.               *)
(*                                                                         *)
(* SpecFanout: MAX_CONCURRENT_REQUESTS + 1 coordinate tasks of one download *)
(*             gather, each with its nine tile fetches counted.            *)
(* SpecAcq   : one download_satellite_image call, tile by tile, or one     *)
(*             download_area_image call of the threaded MapParser script.  *)
(* SpecCrop  : the crop geometry of the 3x3 and of the clamping 2x2        *)
(*             variant, as functions of the pixel offset and the size.     *)
(* SpecEquiv : the same images scored one at a time (the post-processing   *)
(*             of predict) and in chunks (that of _batch_inference).       *)
(*                                                                         *)
(* Indices are 1-based here (Python's are 0-based); "None" stands for      *)
(* Python's None where a string is expected.                               *)
(***************************************************************************)
EXTENDS Integers, Sequences, FiniteSets, TLC

(***************************************************************************)
(* Program constants.                                                      *)
(***************************************************************************)
IMG_SIZE == 128
ZOOM == 20
tile_size == 256
tiles_needed == 3
tiles_needed_2x2 == 2
MAX_RETRIES == 3

(***************************************************************************)
(* Bounds of the model.  MAX_CONCURRENT_REQUESTS is 50 and                 *)
(* MAX_INFERENCE_BATCH_SIZE is 32 in the source; the model runs them       *)
(* scaled down so that "more coordinates than permits" and "more images    *)
(* than one chunk" happen with a handful of coordinates.                   *)
(***************************************************************************)
MAX_CONCURRENT_REQUESTS == 2
MAX_INFERENCE_BATCH_SIZE == 2
MaxRequests == 2
MaxBatch == 3
MaxCoordinates == 3
MaxImages == 3
MaxChunk == 3
MaxAreaTiles == 4
MaxElements == 3
MaxExtent == 3
MaxTileSize == 2
MaxOverlap == 2

Reqs == 1..MaxRequests

(***************************************************************************)
(* Request payloads: CoordinateItem {centroidLat, centroidLng, id}.        *)
(***************************************************************************)
CoordinateItem ==
    { [centroidLat |-> 52, centroidLng |-> 21, id |-> "b-1"],
      [centroidLat |-> 50, centroidLng |-> 19, id |-> "None"] }

RECURSIVE SeqsUpTo(_, _)
SeqsUpTo(S, n) ==
    IF n = 0 THEN { <<>> }
    ELSE LET shorter == SeqsUpTo(S, n - 1)
         IN  shorter \cup { Append(s, x) : s \in { t \in shorter : Len(t) = n - 1 }, x \in S }

BatchPredictRequest == SeqsUpTo(CoordinateItem, MaxBatch)

VARIABLES
    started,        \* startup_event has run
    artifact,       \* the .onnx file on disk: "ok" | "missing" | "corrupt"
    MODEL,          \* the global session handle: "None" | "session"
    SEMAPHORE,      \* free permits of the global asyncio.Semaphore
    kind,           \* per request slot: "none" | "batch" | "predict"
    coordinates,    \* per request: req.coordinates (one item for /predict)
    pc,             \* per request: "idle" | "downloading" | "inferring" | "responded" | "rejected"
    task,           \* per request: the acquisition tasks, in input order
    locals,         \* per request: prepared_images, image_indices, error_results
    batches,        \* per request: the chunks handed to process_batch
    chunk,          \* per request: state of each process_batch task
    batch_results,  \* per request: predictions of each finished chunk
    response,       \* per request: what the endpoint returned or raised
    work,           \* per request: effects counted (get_model calls, permits, fetches, model.run calls)
    mapped,         \* per request, per acquisition: what lat_lng_to_pixel_in_tile returned to it
    acq,            \* SpecFanout: per coordinate task: "waiting" | "fetching" | "done"
    open,           \* SpecFanout: per coordinate task: its _download_tile calls in flight
    acqPc,          \* SpecAcq: "gathering" | "returned" | "raised"
    tile_in,        \* SpecAcq: x_tile, y_tile, pixel_x, pixel_y of the coordinate
    requests,       \* SpecAcq: the tile requests issued, in the order of their tasks
    tile_results,   \* SpecAcq: per cell (i, j): "open" or what _download_tile returned
    combined_image, \* SpecAcq: the canvas, per paste origin: what was pasted there
    cropped,        \* SpecAcq: the crop box and the size of the returned image
    areaPc,         \* SpecAcq: download_area_image: "call" | "downloading" | "returned" | "raised"
    area_in,        \* SpecAcq: min_x_tile, min_y_tile, tiles_x, tiles_y of the bounding box
    futures,        \* SpecAcq: per cell (i, j): the future of its download_tile task
    area_image,     \* SpecAcq: the area canvas, per paste origin: the image there and the pastes made
    downloaded,     \* SpecAcq: download_area_image's count of tiles fetched
    cropPc,         \* SpecCrop: "call" | "done" | "none" (extract_building_image returned None)
    cropIn,         \* SpecCrop: variant, pixel_x, pixel_y, size (and the canvas and tile offset of an area call)
    cropOut,        \* SpecCrop: the box, the cropped size and the final size
    eqIn,           \* SpecEquiv: the classifier's output shape, the images, the chunk size
    eqSingle,       \* SpecEquiv: the scores of the images classified one at a time, so far
    eqChunked,      \* SpecEquiv: the scores _batch_inference returned
    mapIn,          \* SpecMapper: lat, lng of the call
    mapOut,         \* SpecMapper: what lat_lng_to_pixel_in_tile returned
    fetchPc,        \* SpecFetch: "call" | "attempt" | "sleeping" | "returned"
    attempt,        \* SpecFetch: the loop variable of fetch_buildings (0-based)
    posts,          \* SpecFetch: per requests.post call made: how it ended, the status received (0: none), the rows parsed
    sleeps,         \* SpecFetch: the time.sleep calls made, in seconds
    fetched,        \* SpecFetch: what fetch_buildings returned
    gtPc,           \* SpecTiles: "call" | "row" | "tile" | "returned"
    gtIn,           \* SpecTiles: the bounds of the buildings, tile_size, overlap
    scan_x,         \* SpecTiles: x of generate_tiles
    scan_y,         \* SpecTiles: y of generate_tiles
    tile_boxes      \* SpecTiles: the origins of the tile boxes built, in order

svcVars == << started, artifact, MODEL, SEMAPHORE, kind, coordinates, pc, task,
              locals, batches, chunk, batch_results, response, work, mapped >>

fanVars == << acq, open >>

acqVars == << acqPc, tile_in, requests, tile_results, combined_image, cropped >>

areaVars == << areaPc, area_in, futures, area_image, downloaded >>

cropVars == << cropPc, cropIn, cropOut >>

eqVars == << eqIn, eqSingle, eqChunked >>

mapVars == << mapIn, mapOut >>

fetchVars == << fetchPc, attempt, posts, sleeps, fetched >>

gtVars == << gtPc, gtIn, scan_x, scan_y, tile_boxes >>

scriptVars == << mapVars, fetchVars, gtVars >>

vars == << svcVars, fanVars, acqVars, areaVars, cropVars, eqVars, scriptVars >>

(***************************************************************************)
(* The classifier and the post-processing of its logits.  Probabilities    *)
(* are fixed-point, in thousandths.                                        *)
(***************************************************************************)
NoImage == <<>>

\* download_satellite_image + _prepare_image_for_model: the prepared input of a coordinate
PreparedImage(coord) == << coord.centroidLat, coord.centroidLng >>

\* model.run on one row: the two-class logits of an image (each row scored on its own)
Logits(image) == << 0, image[1] - 51 >>

\* model.run(None, {input_name: batch_input})[0]
ModelRun(batch_input) == [ j \in 1..Len(batch_input) |-> Logits(batch_input[j]) ]

\* np.exp, in thousandths (arguments below -3 give 0; none above 3 occurs)
Exp(x) == CASE x = 0 -> 1000 [] x = -1 -> 368 [] x = -2 -> 135 [] x = -3 -> 50
            [] x = 1 -> 2718 [] x = 2 -> 7389 [] x = 3 -> 20086 [] OTHER -> 0

Max2(a, b) == IF a >= b THEN a ELSE b

\* softmax with the row maximum subtracted, then probs[0, 1]
PositiveClassProbability(logit) ==
    LET m == Max2(logit[1], logit[2])
        e1 == Exp(logit[1] - m)
        e2 == Exp(logit[2] - m)
    IN  (e2 * 1000) \div (e1 + e2)

(***************************************************************************)
(* lat_lng_to_pixel_in_tile.  The code computes in floating point; here x  *)
(* and y are kept as exact numbers of 1/256 tile (pixels) and int() is     *)
(* truncation toward zero, as in Python.                                   *)
(***************************************************************************)
\* int(a / b) for b > 0
TruncDiv(a, b) == IF a >= 0 THEN a \div b ELSE -((-a) \div b)

RECURSIVE Pow2(_)
Pow2(k) == IF k = 0 THEN 1 ELSE 2 * Pow2(k - 1)

\* (1.0 - math.asinh(math.tan(lat_rad)) / math.pi) / 2.0 * 2 ** 28, truncated,
\* for the latitudes (in degrees) the model uses
MercatorY(lat) ==
    CASE lat = 50 -> 91038482
      [] lat = 52 -> 88668282
      [] lat = 0 -> 134217728
      [] lat = 85 -> 439674
      [] lat = 86 -> -9103417
      [] lat = 90 -> -1490318016
      [] lat = -85 -> 267995781
      [] lat = 89 -> -68346107
      [] lat = -50 -> 177396973
      [] lat = -86 -> 277538873
      [] lat = -90 -> 1758753472

\* the mapper reading a module-level value that requests change
lat_lng_to_pixel_in_tile_reading_shared_state(lat, lng, zoom) ==
    LET num == (lng + 180) * Pow2(zoom)
        x_tile == TruncDiv(num, 360) + SEMAPHORE
        y256 == TruncDiv(MercatorY(lat), Pow2(20 - zoom))
        y_tile == TruncDiv(y256, 256)
    IN  << x_tile, y_tile, TruncDiv((num - 360 * TruncDiv(num, 360)) * 256, 360),
           y256 - 256 * y_tile >>

\* lines 160-172, for zoom <= 20 and whole degrees of longitude
lat_lng_to_pixel_in_tile(lat, lng, zoom) ==
    LET num == (lng + 180) * Pow2(zoom)
        x_tile == TruncDiv(num, 360)
        pixel_x == TruncDiv((num - 360 * x_tile) * 256, 360)
        y256 == TruncDiv(MercatorY(lat), Pow2(20 - zoom))
        y_tile == TruncDiv(y256, 256)
        pixel_y == y256 - 256 * y_tile
    IN  << x_tile, y_tile, pixel_x, pixel_y >>

(***************************************************************************)
(* get_model / _load_onnx_session: the handle after the call and how the   *)
(* call ended.                                                             *)
(***************************************************************************)
load_onnx_session ==
    IF artifact = "missing" THEN [result |-> "FileNotFoundError", MODEL |-> MODEL, loads |-> 1]
    ELSE IF artifact = "corrupt" THEN [result |-> "RuntimeError", MODEL |-> MODEL, loads |-> 1]
    ELSE [result |-> "ok", MODEL |-> "session", loads |-> 1]

\* get_model with a failed load swallowed: the caller gets the handle as it is
get_model_load_errors_swallowed ==
    IF MODEL # "None" THEN [result |-> "ok", MODEL |-> MODEL, loads |-> 0]
    ELSE [result |-> "ok", MODEL |-> load_onnx_session.MODEL, loads |-> 1]

\* get_model without the test of the handle: every call loads the artifact
get_model_always_loading == load_onnx_session

get_model ==
    IF MODEL # "None" THEN [result |-> "ok", MODEL |-> MODEL, loads |-> 0]
    ELSE load_onnx_session

(***************************************************************************)
(* Responses.                                                              *)
(***************************************************************************)
NoResponse ==
    [status |-> 0, exc |-> "None", detail |-> "None", results |-> <<>>,
     total |-> 0, successful |-> 0, failed |-> 0, isPotentiallyAsbestos |-> 0]

Raised(status, exc, detail) ==
    [NoResponse EXCEPT !.status = status, !.exc = exc, !.detail = detail]

\* ModelErrorResponse with one except clause for every exception of get_model()
ModelErrorResponse_one_clause(result) ==
    Raised(500, "HTTPException", "Model load error")

\* the except clauses around get_model() in predict and batch_predict
ModelErrorResponse(result) ==
    IF result = "FileNotFoundError"
    THEN Raised(503, "HTTPException", "Sesja ONNX nie znaleziona")
    ELSE Raised(500, "HTTPException", "Model load error")

\* loads: calls of _load_onnx_session; runs: calls of model.run, runs_on_loop:
\* those of them made by the coroutine itself, on the event-loop thread
NoWork == [get_model |-> 0, loads |-> 0, permits |-> 0, fetches |-> 0, runs |-> 0,
           runs_on_loop |-> 0]
NoLocals == [prepared_images |-> <<>>, image_indices |-> <<>>, error_results |-> <<>>]

Waiting == [st |-> "waiting", image |-> NoImage, error |-> "None"]
Fetching == [st |-> "fetching", image |-> NoImage, error |-> "None"]

\* request slots are taken in order: which free slot a new request gets
\* makes no difference to it
NextSlot(r) == \A q \in 1..(r - 1) : kind[q] # "none"

\* coordinates submitted so far, over all requests
Submitted == LET RECURSIVE Sum(_)
                 Sum(n) == IF n = 0 THEN 0 ELSE Len(coordinates[n]) + Sum(n - 1)
             IN  Sum(MaxRequests)

(***************************************************************************)
(* Pure parts of batch_predict and _batch_inference.                       *)
(***************************************************************************)
\* lines 480-490: the indices whose download result is not an exception, in order
RECURSIVE ImageIndices(_, _)
ImageIndices(download_results, n) ==
    IF n = 0 THEN <<>>
    ELSE LET before == ImageIndices(download_results, n - 1)
         IN  IF download_results[n].st = "exception" THEN before ELSE Append(before, n)

image_indices_of(download_results) == ImageIndices(download_results, Len(download_results))

\* prepared_images with a blank image appended for a failed download
prepared_images_with_blanks(download_results) ==
    [ k \in 1..Len(download_results) |->
        IF download_results[k].st = "exception" THEN << 0, 0 >> ELSE download_results[k].image ]

prepared_images_of(download_results) ==
    LET ii == image_indices_of(download_results)
    IN  [ k \in 1..Len(ii) |-> download_results[ii[k]].image ]

\* error_results: "None" where the index is no key of the dict
error_results_of(download_results) ==
    [ idx \in 1..Len(download_results) |->
        IF download_results[idx].st = "exception" THEN download_results[idx].error ELSE "None" ]

Min2(a, b) == IF a <= b THEN a ELSE b

\* SplitBatches with the short last chunk lost (range stopping at the last full chunk)
SplitBatches_full_chunks_only(images) ==
    LET nb == Len(images) \div MAX_INFERENCE_BATCH_SIZE
    IN  [ b \in 1..nb |->
            SubSeq(images, (b - 1) * MAX_INFERENCE_BATCH_SIZE + 1, b * MAX_INFERENCE_BATCH_SIZE) ]

\* lines 395-398: for i in range(0, len(images), MAX_INFERENCE_BATCH_SIZE)
SplitBatches(images) ==
    LET n == Len(images)
        nb == (n + MAX_INFERENCE_BATCH_SIZE - 1) \div MAX_INFERENCE_BATCH_SIZE
    IN  [ b \in 1..nb |->
            SubSeq(images, (b - 1) * MAX_INFERENCE_BATCH_SIZE + 1,
                   Min2(b * MAX_INFERENCE_BATCH_SIZE, n)) ]

\* process_batch after the executor returned: one prediction per row of the chunk
process_batch(batch) ==
    LET logits == ModelRun(batch)
    IN  [ j \in 1..Len(batch) |-> PositiveClassProbability(logits[j]) ]

\* line 439: [pred for batch_preds in batch_results for pred in batch_preds]
RECURSIVE Flatten(_)
Flatten(results) ==
    IF results = <<>> THEN <<>>
    ELSE Head(results) \o Flatten(Tail(results))

\* list.index: the first position of v
Index(list, v) == CHOOSE k \in 1..Len(list) : list[k] = v /\ \A m \in 1..(k - 1) : list[m] # v

\* final_results with the rows grouped: the scored coordinates first, the failed ones after
final_results_grouped(coords, error_results, image_indices, predictions) ==
    LET failed == SelectSeq([ k \in 1..Len(coords) |-> k ], LAMBDA k : error_results[k] # "None")
        order == image_indices \o failed
    IN  [ pos \in 1..Len(order) |->
            LET idx == order[pos]
            IN  [centroidLat |-> coords[idx].centroidLat, centroidLng |-> coords[idx].centroidLng,
                 id |-> coords[idx].id,
                 isPotentiallyAsbestos |-> IF pos <= Len(image_indices) THEN predictions[pos] ELSE 0,
                 success |-> pos <= Len(image_indices),
                 error |-> error_results[idx]] ]

\* final_results reading predictions[idx] instead of predictions[image_indices.index(idx)]
final_results_by_position(coords, error_results, image_indices, predictions) ==
    [ idx \in 1..Len(coords) |->
        [centroidLat |-> coords[idx].centroidLat, centroidLng |-> coords[idx].centroidLng,
         id |-> coords[idx].id,
         isPotentiallyAsbestos |->
             IF error_results[idx] # "None" THEN 0
             ELSE predictions[IF idx <= Len(predictions) THEN idx ELSE Len(predictions)],
         success |-> error_results[idx] = "None",
         error |-> error_results[idx]] ]

\* lines 505-527
final_results(coords, error_results, image_indices, predictions) ==
    [ idx \in 1..Len(coords) |->
        IF error_results[idx] # "None"
        THEN [centroidLat |-> coords[idx].centroidLat, centroidLng |-> coords[idx].centroidLng,
              id |-> coords[idx].id, isPotentiallyAsbestos |-> 0, success |-> FALSE,
              error |-> error_results[idx]]
        ELSE [centroidLat |-> coords[idx].centroidLat, centroidLng |-> coords[idx].centroidLng,
              id |-> coords[idx].id,
              isPotentiallyAsbestos |-> predictions[Index(image_indices, idx)],
              success |-> TRUE, error |-> "None"] ]

CountSuccess(results) == Cardinality({ i \in 1..Len(results) : results[i].success })

\* BatchPredictResponse with total taken from the scored rows only
BatchPredictResponse_total_scored(results) ==
    [NoResponse EXCEPT !.status = 200,
                       !.results = results,
                       !.total = CountSuccess(results),
                       !.successful = CountSuccess(results),
                       !.failed = Len(results) - CountSuccess(results)]

\* lines 529-549
BatchPredictResponse(results) ==
    [NoResponse EXCEPT !.status = 200,
                       !.results = results,
                       !.total = Len(results),
                       !.successful = CountSuccess(results),
                       !.failed = Len(results) - CountSuccess(results)]

(***************************************************************************)
(* The service.                                                            *)
(***************************************************************************)
RequestsIdle ==
    /\ kind = [r \in Reqs |-> "none"]
    /\ coordinates = [r \in Reqs |-> <<>>]
    /\ pc = [r \in Reqs |-> "idle"]
    /\ task = [r \in Reqs |-> <<>>]
    /\ locals = [r \in Reqs |-> NoLocals]
    /\ batches = [r \in Reqs |-> <<>>]
    /\ chunk = [r \in Reqs |-> <<>>]
    /\ batch_results = [r \in Reqs |-> <<>>]
    /\ response = [r \in Reqs |-> NoResponse]
    /\ work = [r \in Reqs |-> NoWork]
    /\ mapped = [r \in Reqs |-> << >>]

\* the parts of the state a specification does not use stay as they are here
FanIdle == acq = <<>> /\ open = <<>>

AcqIdle ==
    /\ acqPc = "idle"
    /\ tile_in = <<>>
    /\ requests = <<>>
    /\ tile_results = <<>>
    /\ combined_image = <<>>
    /\ cropped = <<>>

AreaIdle ==
    /\ areaPc = "idle"
    /\ area_in = <<>>
    /\ futures = <<>>
    /\ area_image = <<>>
    /\ downloaded = 0

CropIdle == cropPc = "idle" /\ cropIn = <<>> /\ cropOut = <<>>

MapIdle == mapIn = <<>> /\ mapOut = <<>>

FetchIdle ==
    /\ fetchPc = "idle"
    /\ attempt = 0
    /\ posts = <<>>
    /\ sleeps = <<>>
    /\ fetched = <<>>

TilesIdle ==
    /\ gtPc = "idle"
    /\ gtIn = <<>>
    /\ scan_x = 0
    /\ scan_y = 0
    /\ tile_boxes = <<>>

ScriptsIdle == MapIdle /\ FetchIdle /\ TilesIdle

EquivIdle == eqIn = <<>> /\ eqSingle = <<>> /\ eqChunked = <<>>

\* a step of the service leaves the other specifications' state alone
SvcFrame == UNCHANGED << fanVars, acqVars, areaVars, cropVars, eqVars, scriptVars >>

\* the module as imported: MODEL, SEMAPHORE are None and nothing is served yet
SvcInit ==
    /\ started = FALSE
    /\ artifact \in {"ok", "missing", "corrupt"}
    /\ MODEL = "None"
    /\ SEMAPHORE = 0
    /\ RequestsIdle

\* startup_event: the semaphore is created and the model preloaded; a failed
\* preload is only printed
startup_event ==
    /\ ~started
    /\ started' = TRUE
    /\ SEMAPHORE' = MAX_CONCURRENT_REQUESTS
    /\ MODEL' = get_model.MODEL
    /\ UNCHANGED << artifact, kind, coordinates, pc, task, locals, batches, chunk,
                    batch_results, response, work, mapped >>
    /\ SvcFrame

\* the artifact is put in place while the service runs (a missing file
\* appears, loadable or not; a file that does not load is replaced by a good one)
InstallArtifact ==
    /\ started
    /\ artifact # "ok"
    /\ artifact' \in IF artifact = "missing" THEN {"corrupt", "ok"} ELSE {"ok"}
    /\ UNCHANGED << started, MODEL, SEMAPHORE, kind, coordinates, pc, task, locals,
                    batches, chunk, batch_results, response, work, mapped >>
    /\ SvcFrame

\* batch_predict_entry with get_model() called before the empty check
batch_predict_entry_model_first(coords) ==
    IF get_model.result # "ok"
    THEN [outcome |-> get_model.result, MODEL |-> get_model.MODEL, get_model |-> 1,
          loads |-> get_model.loads]
    ELSE IF coords = <<>>
    THEN [outcome |-> "empty", MODEL |-> get_model.MODEL, get_model |-> 1,
          loads |-> get_model.loads]
    ELSE [outcome |-> "ok", MODEL |-> get_model.MODEL, get_model |-> 1,
          loads |-> get_model.loads]

\* lines 458-466: the empty check, then get_model() and its except clauses
batch_predict_entry(coords) ==
    IF coords = <<>>
    THEN [outcome |-> "empty", MODEL |-> MODEL, get_model |-> 0, loads |-> 0]
    ELSE [outcome |-> get_model.result, MODEL |-> get_model.MODEL, get_model |-> 1,
          loads |-> get_model.loads]

\* batch_predict from its entry to the await of the download gather (lines 445-476)
BatchPredictCall(r, coords) ==
    /\ started
    /\ kind[r] = "none"
    /\ NextSlot(r)
    /\ Submitted + Len(coords) <= MaxCoordinates
    /\ kind' = [kind EXCEPT ![r] = "batch"]
    /\ coordinates' = [coordinates EXCEPT ![r] = coords]
    /\ LET entry == batch_predict_entry(coords)
       IN  /\ MODEL' = entry.MODEL
           /\ work' = [work EXCEPT ![r].get_model = @ + entry.get_model,
                                   ![r].loads = @ + entry.loads]
           /\ IF entry.outcome = "empty"
              THEN /\ pc' = [pc EXCEPT ![r] = "rejected"]
                   /\ response' = [response EXCEPT ![r] =
                                     Raised(400, "HTTPException", "Coordinates list cannot be empty")]
                   /\ UNCHANGED << task, mapped >>
              ELSE IF entry.outcome # "ok"
              THEN /\ pc' = [pc EXCEPT ![r] = "rejected"]
                   /\ response' = [response EXCEPT ![r] = ModelErrorResponse(entry.outcome)]
                   /\ UNCHANGED << task, mapped >>
              ELSE /\ pc' = [pc EXCEPT ![r] = "downloading"]
                   /\ task' = [task EXCEPT ![r] = [i \in 1..Len(coords) |-> Waiting]]
                   /\ mapped' = [mapped EXCEPT ![r] = [i \in 1..Len(coords) |-> << >>]]
                   /\ UNCHANGED response
    /\ UNCHANGED << started, artifact, SEMAPHORE, locals, batches, chunk, batch_results >>
    /\ SvcFrame

\* the task goes on whether or not a permit is free
PermitAlwaysAvailable == TRUE

\* line 382, "async with SEMAPHORE": the task goes on only when a permit is free
PermitAvailable == SEMAPHORE > 0

\* the permit stays with a task that has left the "async with"
SemaphoreRelease_skipped(permits) == permits

\* leaving the "async with" hands back one permit more than was taken
SemaphoreRelease_twice(permits) == permits + 2

\* lines 382-385: leaving "async with SEMAPHORE", by return or by exception,
\* releases the permit
SemaphoreRelease(permits) == permits + 1

\* _download_and_prepare_image: "async with SEMAPHORE" entered, then
\* download_satellite_image up to the await of its tile gather (lines 382-383, 175-199)
AcquirePermit(r, i) ==
    /\ kind[r] = "batch"
    /\ pc[r] = "downloading"
    /\ i \in 1..Len(task[r])
    /\ task[r][i].st = "waiting"
    /\ PermitAvailable
    /\ SEMAPHORE' = SEMAPHORE - 1
    /\ task' = [task EXCEPT ![r][i] = Fetching]
    /\ mapped' = [mapped EXCEPT ![r][i] =
                    lat_lng_to_pixel_in_tile(coordinates[r][i].centroidLat,
                                             coordinates[r][i].centroidLng, ZOOM)]
    /\ work' = [work EXCEPT ![r].permits = @ + 1,
                            ![r].fetches = @ + tiles_needed * tiles_needed]
    /\ UNCHANGED << started, artifact, MODEL, kind, coordinates, pc, locals, batches,
                    chunk, batch_results, response >>
    /\ SvcFrame

\* the tile gather returned, the canvas was pasted, cropped and prepared:
\* the task returns input_np and leaves the "async with" (lines 199-223, 384-385)
DownloadReturn(r, i) ==
    /\ kind[r] = "batch"
    /\ pc[r] = "downloading"
    /\ i \in 1..Len(task[r])
    /\ task[r][i].st = "fetching"
    /\ SEMAPHORE' = SemaphoreRelease(SEMAPHORE)
    /\ task' = [task EXCEPT ![r][i] =
                  [st |-> "image", image |-> PreparedImage(coordinates[r][i]), error |-> "None"]]
    /\ UNCHANGED << started, artifact, MODEL, kind, coordinates, pc, locals, batches,
                    chunk, batch_results, response, work, mapped >>
    /\ SvcFrame

\* download_satellite_image or _prepare_image_for_model raised inside the
\* "async with": the permit is released and the gather keeps the exception
DownloadRaise(r, i) ==
    /\ kind[r] = "batch"
    /\ pc[r] = "downloading"
    /\ i \in 1..Len(task[r])
    /\ task[r][i].st = "fetching"
    /\ SEMAPHORE' = SemaphoreRelease(SEMAPHORE)
    /\ task' = [task EXCEPT ![r][i] =
                  [st |-> "exception", image |-> NoImage, error |-> "image file is truncated"]]
    /\ UNCHANGED << started, artifact, MODEL, kind, coordinates, pc, locals, batches,
                    chunk, batch_results, response, work, mapped >>
    /\ SvcFrame

AllDownloaded(r) == \A i \in 1..Len(task[r]) : task[r][i].st \in {"image", "exception"}

\* the download gather returned: lines 476-498 and _batch_inference up to the
\* await of its gather (lines 388-436); each chunk's model.run is handed to
\* INFERENCE_EXECUTOR (lines 411-414)
BatchInferenceCall(r) ==
    /\ kind[r] = "batch"
    /\ pc[r] = "downloading"
    /\ AllDownloaded(r)
    /\ LET download_results == task[r]
           prepared_images == prepared_images_of(download_results)
       IN  /\ locals' = [locals EXCEPT ![r] =
                           [prepared_images |-> prepared_images,
                            image_indices |-> image_indices_of(download_results),
                            error_results |-> error_results_of(download_results)]]
           /\ batches' = [batches EXCEPT ![r] = SplitBatches(prepared_images)]
           /\ chunk' = [chunk EXCEPT ![r] =
                          [b \in 1..Len(SplitBatches(prepared_images)) |-> "running"]]
           /\ batch_results' = [batch_results EXCEPT ![r] =
                                  [b \in 1..Len(SplitBatches(prepared_images)) |-> <<>>]]
           /\ work' = [work EXCEPT ![r].runs = @ + Len(SplitBatches(prepared_images))]
    /\ pc' = [pc EXCEPT ![r] = "inferring"]
    /\ UNCHANGED << started, artifact, MODEL, SEMAPHORE, kind, coordinates, task, response, mapped >>
    /\ SvcFrame

\* the executor finished model.run for chunk b; process_batch post-processes it
ProcessBatchReturn(r, b) ==
    /\ pc[r] = "inferring"
    /\ b \in 1..Len(chunk[r])
    /\ chunk[r][b] = "running"
    /\ chunk' = [chunk EXCEPT ![r][b] = "done"]
    /\ batch_results' = [batch_results EXCEPT ![r][b] = process_batch(batches[r][b])]
    /\ UNCHANGED << started, artifact, MODEL, SEMAPHORE, kind, coordinates, pc, task,
                    locals, batches, response, work, mapped >>
    /\ SvcFrame

\* model.run raised for chunk b: the gather of line 436 re-raises it in
\* batch_predict, which has no handler there
ProcessBatchRaise(r, b) ==
    /\ pc[r] = "inferring"
    /\ b \in 1..Len(chunk[r])
    /\ chunk[r][b] = "running"
    /\ chunk' = [chunk EXCEPT ![r][b] = "raised"]
    /\ pc' = [pc EXCEPT ![r] = "rejected"]
    /\ response' = [response EXCEPT ![r] = Raised(500, "RuntimeException", "Internal Server Error")]
    /\ UNCHANGED << started, artifact, MODEL, SEMAPHORE, kind, coordinates, task, locals,
                    batches, batch_results, work, mapped >>
    /\ SvcFrame

\* line 502: inference_time / len(predictions)
AverageInferenceTimeRaises(predictions) == Len(predictions) = 0

\* the inference gather returned: lines 436-441 and 500-549
BatchPredictReturn(r) ==
    /\ pc[r] = "inferring"
    /\ \A b \in 1..Len(chunk[r]) : chunk[r][b] = "done"
    /\ LET predictions == Flatten(batch_results[r])
       IN  IF AverageInferenceTimeRaises(predictions)
           THEN /\ pc' = [pc EXCEPT ![r] = "rejected"]
                /\ response' = [response EXCEPT ![r] =
                                  Raised(500, "ZeroDivisionError", "Internal Server Error")]
           ELSE /\ pc' = [pc EXCEPT ![r] = "responded"]
                /\ response' = [response EXCEPT ![r] =
                                  BatchPredictResponse(
                                      final_results(coordinates[r], locals[r].error_results,
                                                    locals[r].image_indices, predictions))]
    /\ UNCHANGED << started, artifact, MODEL, SEMAPHORE, kind, coordinates, task, locals,
                    batches, chunk, batch_results, work, mapped >>
    /\ SvcFrame

\* predict from its entry to the await of the tile gather (lines 323-338, 175-199):
\* no permit is taken on this path
PredictCall(r, coord) ==
    /\ started
    /\ kind[r] = "none"
    /\ NextSlot(r)
    /\ Submitted + 1 <= MaxCoordinates
    /\ kind' = [kind EXCEPT ![r] = "predict"]
    /\ coordinates' = [coordinates EXCEPT ![r] = << coord >>]
    /\ LET got == get_model
       IN  /\ MODEL' = got.MODEL
           /\ IF got.result # "ok"
              THEN /\ pc' = [pc EXCEPT ![r] = "rejected"]
                   /\ response' = [response EXCEPT ![r] = ModelErrorResponse(got.result)]
                   /\ work' = [work EXCEPT ![r].get_model = @ + 1, ![r].loads = @ + got.loads]
                   /\ UNCHANGED << task, mapped >>
              ELSE /\ pc' = [pc EXCEPT ![r] = "downloading"]
                   /\ task' = [task EXCEPT ![r] = << Fetching >>]
                   /\ mapped' = [mapped EXCEPT ![r] =
                                   << lat_lng_to_pixel_in_tile(coord.centroidLat,
                                                               coord.centroidLng, ZOOM) >>]
                   /\ work' = [work EXCEPT ![r].get_model = @ + 1,
                                           ![r].loads = @ + got.loads,
                                           ![r].fetches = @ + tiles_needed * tiles_needed]
                   /\ UNCHANGED response
    /\ UNCHANGED << started, artifact, SEMAPHORE, locals, batches, chunk, batch_results >>
    /\ SvcFrame

\* lines 338-377: the image arrived, it is prepared and model.run is called in
\* place, by the coroutine (line 357)
PredictReturn(r) ==
    /\ kind[r] = "predict"
    /\ pc[r] = "downloading"
    /\ task[r][1].st = "fetching"
    /\ LET input_np == << PreparedImage(coordinates[r][1]) >>
           logits == ModelRun(input_np)
       IN  /\ task' = [task EXCEPT ![r][1] =
                         [st |-> "image", image |-> input_np[1], error |-> "None"]]
           /\ response' = [response EXCEPT ![r] =
                             [NoResponse EXCEPT !.status = 200,
                                  !.isPotentiallyAsbestos = PositiveClassProbability(logits[1])]]
    /\ pc' = [pc EXCEPT ![r] = "responded"]
    /\ work' = [work EXCEPT ![r].runs = @ + 1, ![r].runs_on_loop = @ + 1]
    /\ UNCHANGED << started, artifact, MODEL, SEMAPHORE, kind, coordinates, locals,
                    batches, chunk, batch_results, mapped >>
    /\ SvcFrame

\* lines 339-340: download_satellite_image raised
PredictDownloadRaise(r) ==
    /\ kind[r] = "predict"
    /\ pc[r] = "downloading"
    /\ task[r][1].st = "fetching"
    /\ task' = [task EXCEPT ![r][1] =
                  [st |-> "exception", image |-> NoImage, error |-> "image file is truncated"]]
    /\ pc' = [pc EXCEPT ![r] = "rejected"]
    /\ response' = [response EXCEPT ![r] = Raised(500, "HTTPException", "Failed to download image")]
    /\ UNCHANGED << started, artifact, MODEL, SEMAPHORE, kind, coordinates, locals,
                    batches, chunk, batch_results, work, mapped >>
    /\ SvcFrame

\* lines 367-368: model.run raised
PredictInferenceRaise(r) ==
    /\ kind[r] = "predict"
    /\ pc[r] = "downloading"
    /\ task[r][1].st = "fetching"
    /\ task' = [task EXCEPT ![r][1] =
                  [st |-> "image", image |-> PreparedImage(coordinates[r][1]), error |-> "None"]]
    /\ pc' = [pc EXCEPT ![r] = "rejected"]
    /\ response' = [response EXCEPT ![r] =
                      Raised(500, "HTTPException", "Model inference error (ONNX)")]
    /\ work' = [work EXCEPT ![r].runs = @ + 1, ![r].runs_on_loop = @ + 1]
    /\ UNCHANGED << started, artifact, MODEL, SEMAPHORE, kind, coordinates, locals,
                    batches, chunk, batch_results, mapped >>
    /\ SvcFrame

SvcNext ==
    \/ startup_event
    \/ InstallArtifact
    \/ \E r \in Reqs, coords \in BatchPredictRequest : BatchPredictCall(r, coords)
    \/ \E r \in Reqs, i \in 1..MaxBatch : AcquirePermit(r, i)
    \/ \E r \in Reqs, i \in 1..MaxBatch : DownloadReturn(r, i)
    \/ \E r \in Reqs, i \in 1..MaxBatch : DownloadRaise(r, i)
    \/ \E r \in Reqs : BatchInferenceCall(r)
    \/ \E r \in Reqs, b \in 1..MaxBatch : ProcessBatchReturn(r, b)
    \/ \E r \in Reqs, b \in 1..MaxBatch : ProcessBatchRaise(r, b)
    \/ \E r \in Reqs : BatchPredictReturn(r)
    \/ \E r \in Reqs, coord \in CoordinateItem : PredictCall(r, coord)
    \/ \E r \in Reqs : PredictReturn(r)
    \/ \E r \in Reqs : PredictDownloadRaise(r)
    \/ \E r \in Reqs : PredictInferenceRaise(r)

Init == SvcInit /\ FanIdle /\ AcqIdle /\ AreaIdle /\ CropIdle /\ EquivIdle /\ ScriptsIdle

Next == SvcNext

Spec == Init /\ [][Next]_vars

(***************************************************************************)
(* Properties of the service (Spec).                                       *)
(***************************************************************************)
BatchResponded(r) == kind[r] = "batch" /\ pc[r] = "responded"

FailedAcquisitions(r) == { i \in 1..Len(task[r]) : task[r][i].st = "exception" }

\* C1: every results list returned by batch_predict has exactly as many
\* entries as the request has coordinates, and entry i carries the latitude,
\* longitude and id of input coordinate i, for any mix of acquisition
\* successes and failures and any completion order of the acquisitions.
C1_ResultsFollowInput ==
    \A r \in Reqs :
        BatchResponded(r) =>
            /\ Len(response[r].results) = Len(coordinates[r])
            /\ \A i \in 1..Len(coordinates[r]) :
                /\ response[r].results[i].centroidLat = coordinates[r][i].centroidLat
                /\ response[r].results[i].centroidLng = coordinates[r][i].centroidLng
                /\ response[r].results[i].id = coordinates[r][i].id

\* a response for three coordinates, the first two different, with both a
\* failed and a scored coordinate
C1_Witness ==
    \E r \in Reqs :
        /\ BatchResponded(r)
        /\ Len(coordinates[r]) >= 3
        /\ coordinates[r][1] # coordinates[r][2]
        /\ response[r].successful >= 1
        /\ response[r].failed >= 1

\* C2: a batch in which k >= 1 of the N acquisitions failed (k = N included)
\* and whose classifier calls all returned ends with a normal response that
\* lists all N coordinates, the failed ones with success = FALSE and their
\* captured error; it never ends with a request-level error.
C2_FailedCoordinatesStayPerItem ==
    \A r \in Reqs :
        ( /\ kind[r] = "batch"
          /\ pc[r] \in {"responded", "rejected"}
          /\ FailedAcquisitions(r) # {}
          /\ \A b \in 1..Len(chunk[r]) : chunk[r][b] # "raised" ) =>
            /\ pc[r] = "responded"
            /\ response[r].status = 200
            /\ Len(response[r].results) = Len(coordinates[r])
            /\ \A i \in FailedAcquisitions(r) :
                /\ response[r].results[i].success = FALSE
                /\ response[r].results[i].error = task[r][i].error

\* C3: every response of batch_predict has total = number of input
\* coordinates, successful = number of results with success, failed = number
\* of results without, and successful + failed = total.
C3_CountsAgree ==
    \A r \in Reqs :
        BatchResponded(r) =>
            LET res == response[r].results
            IN  /\ response[r].total = Len(coordinates[r])
                /\ response[r].successful = Cardinality({ i \in 1..Len(res) : res[i].success })
                /\ response[r].failed = Cardinality({ i \in 1..Len(res) : ~res[i].success })
                /\ response[r].successful + response[r].failed = response[r].total

C3_Witness ==
    \E r \in Reqs :
        /\ BatchResponded(r)
        /\ response[r].successful >= 1
        /\ response[r].failed >= 1
        /\ response[r].total >= 3

C4_EmptyRejected ==
    \A r \in Reqs :
        (kind[r] = "batch" /\ coordinates[r] = <<>>) =>
            /\ pc[r] = "rejected"
            /\ response[r].status = 400
            /\ work[r] = NoWork
            /\ task[r] = <<>>

C4_EmptyCallStep ==
    \A r \in Reqs :
        (kind[r] = "none" /\ kind'[r] = "batch" /\ coordinates'[r] = <<>>) =>
            /\ MODEL' = MODEL
            /\ SEMAPHORE' = SEMAPHORE
            /\ response'[r].status = 400

\* C4: batch_predict with an empty coordinates list is rejected with status
\* 400 before any work: the step that takes the request leaves the model
\* handle and the semaphore as they were, and the request never has a
\* get_model call, a permit, a tile fetch or a classifier call to its name.
C4_EmptyBatchRejectedBeforeWork == []C4_EmptyRejected /\ [][C4_EmptyCallStep]_vars

\* an empty batch was rejected while the artifact was in place and the model
\* still unloaded: a load, had it been attempted, would have set the handle
C4_Witness ==
    \E r \in Reqs :
        /\ kind[r] = "batch"
        /\ coordinates[r] = <<>>
        /\ response[r].status = 400
        /\ artifact = "ok"
        /\ MODEL = "None"

InProgress == { ri \in Reqs \X (1..MaxBatch) :
                  ri[2] <= Len(task[ri[1]]) /\ task[ri[1]][ri[2]].st = "fetching" }

\* C6: over all requests served together (/batch_predict and /predict), the
\* number of coordinate acquisitions in progress is at most
\* MAX_CONCURRENT_REQUESTS.
C6_AcquisitionsWithinLimiter == Cardinality(InProgress) <= MAX_CONCURRENT_REQUESTS

AllChunksDone(r) == \A b \in 1..Len(chunk[r]) : chunk[r][b] = "done"

\* C9: _batch_inference cuts its input into consecutive chunks of
\* MAX_INFERENCE_BATCH_SIZE images (only the last may be shorter) whose
\* concatenation is the input, issues one classifier call per chunk, and
\* once the chunks have finished, in any order, returns one score per
\* input image, in input order.
C9_BatchInferenceAligned ==
    \A r \in Reqs :
        pc[r] = "inferring" =>
            LET images == locals[r].prepared_images
                nb == Len(batches[r])
            IN  /\ Flatten(batches[r]) = images
                /\ \A b \in 1..nb :
                    /\ Len(batches[r][b]) >= 1
                    /\ Len(batches[r][b]) <= MAX_INFERENCE_BATCH_SIZE
                    /\ b < nb => Len(batches[r][b]) = MAX_INFERENCE_BATCH_SIZE
                /\ Len(chunk[r]) = nb
                /\ work[r].runs = nb
                /\ AllChunksDone(r) =>
                    LET predictions == Flatten(batch_results[r])
                    IN  /\ Len(predictions) = Len(images)
                        /\ \A k \in 1..Len(images) :
                            predictions[k] = PositiveClassProbability(Logits(images[k]))

\* every chunk of an input longer than one chunk, and not a multiple of the
\* chunk size, has finished; the images do not all score the same
C9_Witness ==
    \E r \in Reqs :
        /\ pc[r] = "inferring"
        /\ AllChunksDone(r)
        /\ Len(batches[r]) >= 2
        /\ Len(locals[r].prepared_images) % MAX_INFERENCE_BATCH_SIZE # 0
        /\ \E k \in 1..Len(locals[r].prepared_images) :
            locals[r].prepared_images[k] # locals[r].prepared_images[1]

\* the score of a coordinate submitted alone
AloneScore(coord) == PositiveClassProbability(Logits(PreparedImage(coord)))

\* C10: in a batch response, a coordinate is reported successful exactly
\* when its acquisition returned an image, and its score is the classifier's
\* score of its own prepared image: the score the coordinate gets alone
\* (also through /predict), whichever other coordinates fail or succeed.
C10_ScoreIsOwnImage ==
    \A r \in Reqs :
        BatchResponded(r) =>
            \A i \in 1..Len(coordinates[r]) :
                LET row == response[r].results[i]
                IN  /\ row.success = (task[r][i].st = "image")
                    /\ row.success =>
                        /\ row.isPotentiallyAsbestos =
                               PositiveClassProbability(Logits(task[r][i].image))
                        /\ row.isPotentiallyAsbestos = AloneScore(coordinates[r][i])
                        /\ \A q \in Reqs :
                            ( /\ kind[q] = "predict"
                              /\ pc[q] = "responded"
                              /\ coordinates[q][1] = coordinates[r][i] ) =>
                                response[q].isPotentiallyAsbestos = row.isPotentiallyAsbestos

\* a batch whose first coordinate failed and whose second, a different one,
\* was scored, next to a /predict response for that second coordinate
C10_Witness ==
    \E r, q \in Reqs :
        /\ BatchResponded(r)
        /\ Len(coordinates[r]) >= 2
        /\ ~response[r].results[1].success
        /\ response[r].results[2].success
        /\ coordinates[r][1] # coordinates[r][2]
        /\ kind[q] = "predict"
        /\ pc[q] = "responded"
        /\ coordinates[q][1] = coordinates[r][2]

\* the chunk of _batch_inference that holds the image of coordinate i
ChunkOf(r, i) == (Index(locals[r].image_indices, i) - 1) \div MAX_INFERENCE_BATCH_SIZE + 1

\* the pipeline of coordinate i raised: in its acquisition or preprocessing,
\* or in the classifier call of the chunk that holds its image
PipelineRaised(r, i) ==
    \/ task[r][i].st = "exception"
    \/ /\ task[r][i].st = "image"
       /\ locals[r].image_indices # << >>
       /\ chunk[r][ChunkOf(r, i)] = "raised"

\* C12: an exception raised while one coordinate of a batch is processed
\* (acquisition, preprocessing, or the classifier call of its chunk) ends in
\* that coordinate's row as success = FALSE with a message, and the rows of
\* the sibling coordinates are returned as they would be without it.
C12_ExceptionsStayPerItem ==
    \A r \in Reqs :
        ( /\ kind[r] = "batch"
          /\ pc[r] \in {"responded", "rejected"}
          /\ task[r] # << >>
          /\ \E i \in 1..Len(task[r]) : PipelineRaised(r, i)
          /\ \E i \in 1..Len(task[r]) : task[r][i].st = "image" /\ ~PipelineRaised(r, i) ) =>
            /\ pc[r] = "responded"
            /\ response[r].status = 200
            /\ Len(response[r].results) = Len(coordinates[r])
            /\ \A i \in 1..Len(task[r]) :
                IF PipelineRaised(r, i)
                THEN /\ response[r].results[i].success = FALSE
                     /\ response[r].results[i].error # "None"
                ELSE /\ response[r].results[i].success = TRUE
                     /\ response[r].results[i].isPotentiallyAsbestos = AloneScore(coordinates[r][i])

\* the request was turned away by the except clauses around get_model()
ModelRejected(r) ==
    /\ kind[r] # "none"
    /\ response[r] \in { ModelErrorResponse("FileNotFoundError"), ModelErrorResponse("RuntimeError") }

C13_RejectedWithoutAcquisition ==
    \A r \in Reqs :
        ModelRejected(r) =>
            /\ pc[r] = "rejected"
            /\ task[r] = << >>
            /\ work[r].permits = 0
            /\ work[r].fetches = 0
            /\ work[r].runs = 0

C13_UnavailableCallStep ==
    \A r \in Reqs :
        (kind[r] = "none" /\ kind'[r] # "none" /\ MODEL = "None" /\ artifact # "ok") =>
            /\ pc'[r] = "rejected"
            /\ response'[r].status \in {400, 500, 503}
            /\ coordinates'[r] # << >> => ModelRejected(r)'
            /\ SEMAPHORE' = SEMAPHORE
            /\ task'[r] = << >>
            /\ work'[r].permits = 0
            /\ work'[r].fetches = 0

\* C13: while the classifier is unavailable (no handle, and the artifact
\* missing or failing to load), the step that takes a /predict or a
\* /batch_predict request rejects it with a request-level error and leaves
\* the semaphore alone, and a request rejected so never has a permit, a tile
\* fetch or a classifier call to its name.
C13_UnavailableRejectsBeforeAcquisition ==
    []C13_RejectedWithoutAcquisition /\ [][C13_UnavailableCallStep]_vars

\* a /predict and a non-empty /batch_predict request were both rejected for
\* the classifier, which is still unavailable
C13_Witness ==
    \E r, q \in Reqs :
        /\ kind[r] = "predict"
        /\ kind[q] = "batch"
        /\ coordinates[q] # << >>
        /\ ModelRejected(r)
        /\ ModelRejected(q)
        /\ MODEL = "None"

C14_OutcomesDiffer ==
    MODEL = "None" =>
        /\ artifact = "missing" => get_model.result = "FileNotFoundError"
        /\ artifact = "corrupt" => get_model.result = "RuntimeError"
        /\ artifact = "ok" => get_model.result = "ok"

C14_CallStep ==
    \A r \in Reqs :
        (kind[r] = "none" /\ kind'[r] # "none" /\ coordinates'[r] # << >> /\ MODEL = "None") =>
            /\ artifact = "missing" =>
                /\ response'[r].status = 503
                /\ response'[r].detail = "Sesja ONNX nie znaleziona"
            /\ artifact = "corrupt" =>
                /\ response'[r].status = 500
                /\ response'[r].detail = "Model load error"
            /\ artifact = "ok" => response'[r] = NoResponse

\* C14: obtaining the classifier ends in two different errors for a missing
\* artifact (FileNotFoundError) and for one that exists and does not load
\* (RuntimeError), and predict and batch_predict answer the first with status
\* 503 and the not-found message, the second with status 500 and "Model load
\* error".
C14_MissingAndLoadErrorDistinct == []C14_OutcomesDiffer /\ [][C14_CallStep]_vars

\* a /predict request answered 503 while the artifact was missing and a
\* /batch_predict request answered 500 after a file that does not load appeared
C14_Witness ==
    \E r, q \in Reqs :
        /\ kind[r] = "predict"
        /\ response[r].status = 503
        /\ kind[q] = "batch"
        /\ response[q].status = 500
        /\ response[q].detail = "Model load error"
        /\ artifact = "corrupt"

\* the calls of lat_lng_to_pixel_in_tile made so far: request and position
MapperCalls == { ri \in Reqs \X (1..MaxBatch) :
                   ri[2] <= Len(mapped[ri[1]]) /\ mapped[ri[1]][ri[2]] # << >> }

RECURSIVE AcquiredImages(_, _)
AcquiredImages(r, n) ==
    IF n = 0 THEN << >>
    ELSE IF task[r][n].st = "image"
         THEN Append(AcquiredImages(r, n - 1), PreparedImage(coordinates[r][n]))
         ELSE AcquiredImages(r, n - 1)

\* C16: the images batch_predict hands to _batch_inference, and through its
\* chunks to the classifier, are exactly the prepared images of the
\* coordinates whose acquisition succeeded, in input order; a failed
\* acquisition adds no input, and a response has as many rows with
\* success = TRUE as the classifier got inputs.
C16_InferenceInputsAreAcquiredImages ==
    \A r \in Reqs :
        (kind[r] = "batch" /\ pc[r] \in {"inferring", "responded"}) =>
            LET inputs == Flatten(batches[r])
            IN  /\ locals[r].prepared_images = AcquiredImages(r, Len(task[r]))
                /\ inputs = locals[r].prepared_images
                /\ Len(inputs) = Len(task[r]) - Cardinality(FailedAcquisitions(r))
                /\ pc[r] = "responded" =>
                    /\ response[r].successful = Len(inputs)
                    /\ CountSuccess(response[r].results) = Len(inputs)

\* a response to a batch whose first acquisition failed and whose other
\* two succeeded, for different coordinates
C16_Witness ==
    \E r \in Reqs :
        /\ BatchResponded(r)
        /\ Len(task[r]) = 3
        /\ task[r][1].st = "exception"
        /\ task[r][2].st = "image"
        /\ task[r][3].st = "image"
        /\ coordinates[r][2] # coordinates[r][3]
        /\ Len(Flatten(batches[r])) = 2

\* C17: no classifier call runs on the event-loop thread: every model.run of
\* /predict and of /batch_predict is made by a worker of the inference pool.
C17_NoClassifierCallOnEventLoop == \A r \in Reqs : work[r].runs_on_loop = 0

\* a step in which request slot r takes a request
Arrives(r) == kind[r] = "none" /\ kind'[r] # "none"

C20_OnlyStartupLoads ==
    /\ MODEL' # MODEL => (~started /\ started')
    /\ MODEL # "None" => MODEL' = MODEL
    /\ \A r \in Reqs : Arrives(r) => MODEL' = MODEL

\* C20 as stated: the classifier is loaded only by the startup action, the
\* handle is set at most once, and no request sets, replaces, reloads or
\* resets it: requests only read it.
C20_LoadedOnlyByStartup == [][C20_OnlyStartupLoads]_vars

C20_SetOnce ==
    /\ MODEL # "None" => MODEL' = MODEL
    /\ MODEL' # MODEL =>
        /\ MODEL = "None"
        /\ artifact = "ok"
        /\ \/ ~started /\ started'
           \/ \E r \in Reqs : Arrives(r) /\ coordinates'[r] # << >> /\ work'[r].loads = 1
    /\ \A r \in Reqs :
        (Arrives(r) /\ MODEL # "None") => (MODEL' = MODEL /\ work'[r].loads = 0)

\* C20 as amended: the classifier is loaded by the first get_model call that
\* finds no handle and a loadable artifact, which is the startup preload or,
\* when that failed, a later request; the handle is set at most once, and
\* once it is set no request replaces, reloads or resets it: requests then
\* only read it.
C20_HandleSetOnceThenReadOnly == [][C20_SetOnce]_vars

\* a request was rejected for the classifier after startup (the preload had
\* failed), and a later request loaded it, set the handle and went on
C20_Witness ==
    \E q, r \in Reqs :
        /\ ModelRejected(q)
        /\ work[q].loads = 1
        /\ kind[r] # "none"
        /\ pc[r] # "rejected"
        /\ work[r].loads = 1
        /\ MODEL = "session"

\* the acquisitions that hold a permit: the tasks of batch requests inside
\* the "async with" of _download_and_prepare_image
PermitHolders == { ri \in InProgress : kind[ri[1]] = "batch" }

\* C27: limiter permits are conserved: the permits held never exceed the
\* capacity; a permit taken by an acquisition is back when the acquisition
\* has ended, with an image or with an exception, so that the free permits
\* are the capacity less the acquisitions holding one; and when no
\* acquisition is in progress every permit is free.
C27_PermitsConserved ==
    started =>
        /\ Cardinality(PermitHolders) <= MAX_CONCURRENT_REQUESTS
        /\ SEMAPHORE = MAX_CONCURRENT_REQUESTS - Cardinality(PermitHolders)
        /\ InProgress = {} => SEMAPHORE = MAX_CONCURRENT_REQUESTS

\* a batch of more coordinates than permits, all acquisitions over, one of
\* them ended by an exception and one by an image: every permit is back
C27_Witness ==
    \E r \in Reqs :
        /\ kind[r] = "batch"
        /\ Len(task[r]) > MAX_CONCURRENT_REQUESTS
        /\ AllDownloaded(r)
        /\ \E i \in 1..Len(task[r]) : task[r][i].st = "exception"
        /\ \E i \in 1..Len(task[r]) : task[r][i].st = "image"
        /\ work[r].permits = Len(task[r])
        /\ InProgress = {}
        /\ SEMAPHORE = MAX_CONCURRENT_REQUESTS

(***************************************************************************)
(* SpecLive: the service under the scheduling the event loop gives.  A     *)
(* task waiting at "async with SEMAPHORE" is queued first-in first-out and *)
(* woken by a release, so a task for which a permit is free again and      *)
(* again gets one (strong fairness); a tile gather that is awaited         *)
(* completes, with the image or with an exception; a coroutine that can    *)
(* run is run; a chunk handed to the executor returns or raises.           *)
(***************************************************************************)
SvcFairness ==
    \A r \in Reqs :
        /\ \A i \in 1..MaxBatch :
              /\ SF_vars(AcquirePermit(r, i))
              /\ WF_vars(DownloadReturn(r, i) \/ DownloadRaise(r, i))
        /\ WF_vars(BatchInferenceCall(r))
        /\ \A b \in 1..MaxBatch : WF_vars(ProcessBatchReturn(r, b) \/ ProcessBatchRaise(r, b))
        /\ WF_vars(BatchPredictReturn(r))

SpecLive == Init /\ [][Next]_vars /\ SvcFairness

\* C26: when every tile fetch completes and every classifier call returns,
\* every batch_predict request gets a response, whatever the number of
\* coordinates (more than the limiter's capacity included) and of requests
\* served together: no acquisition waits for a permit forever and no
\* request stays unanswered.
C26_EveryBatchRequestAnswered ==
    \A r \in Reqs :
        /\ (kind[r] = "batch") ~> (pc[r] \in {"responded", "rejected"})
        /\ \A i \in 1..MaxBatch :
              (i <= Len(task[r]) /\ task[r][i].st = "waiting")
                  ~> (i <= Len(task[r]) /\ task[r][i].st # "waiting")

\* a batch of more coordinates than permits was answered with its results
C26_Witness ==
    \E r \in Reqs :
        /\ kind[r] = "batch"
        /\ Len(coordinates[r]) > MAX_CONCURRENT_REQUESTS
        /\ work[r].permits = Len(coordinates[r])
        /\ pc[r] = "responded"
        /\ response[r] # NoResponse

(***************************************************************************)
(* SpecFanout: the download gather of one batch with more coordinates than *)
(* permits.  A tile fetch is open from the moment its _download_tile task  *)
(* is gathered until that task returns (tile or filler).                   *)
(***************************************************************************)
FanCoordinates == MAX_CONCURRENT_REQUESTS + 1

FanTasks == 1..FanCoordinates

FanInit ==
    /\ started = TRUE
    /\ artifact = "ok"
    /\ MODEL = "session"
    /\ SEMAPHORE = MAX_CONCURRENT_REQUESTS
    /\ RequestsIdle
    /\ acq = [i \in FanTasks |-> "waiting"]
    /\ open = [i \in FanTasks |-> 0]
    /\ AcqIdle
    /\ AreaIdle
    /\ CropIdle
    /\ EquivIdle
    /\ ScriptsIdle

FanFrame == UNCHANGED << started, artifact, MODEL, kind, coordinates, pc, task, locals, batches,
                         chunk, batch_results, response, work, mapped, acqVars, areaVars,
                         cropVars, eqVars, scriptVars >>

\* lines 382-383 and 185-199: the permit is taken and the nine tile tasks are gathered
download_and_prepare_image_enter(i) ==
    /\ acq[i] = "waiting"
    /\ PermitAvailable
    /\ SEMAPHORE' = SEMAPHORE - 1
    /\ acq' = [acq EXCEPT ![i] = "fetching"]
    /\ open' = [open EXCEPT ![i] = tiles_needed * tiles_needed]
    /\ FanFrame

\* lines 226-236: one _download_tile task returns its tile or the grey filler
download_tile_return(i) ==
    /\ acq[i] = "fetching"
    /\ open[i] > 0
    /\ open' = [open EXCEPT ![i] = @ - 1]
    /\ UNCHANGED << SEMAPHORE, acq >>
    /\ FanFrame

\* lines 199-223 and 384-385: the gather is complete, the image is built (or
\* an exception leaves the block) and the permit is given back
download_and_prepare_image_exit(i) ==
    /\ acq[i] = "fetching"
    /\ open[i] = 0
    /\ SEMAPHORE' = SEMAPHORE + 1
    /\ acq' = [acq EXCEPT ![i] = "done"]
    /\ UNCHANGED open
    /\ FanFrame

FanNext ==
    \/ \E i \in FanTasks : download_and_prepare_image_enter(i)
    \/ \E i \in FanTasks : download_tile_return(i)
    \/ \E i \in FanTasks : download_and_prepare_image_exit(i)

SpecFanout == FanInit /\ [][FanNext]_vars

RECURSIVE SumTo(_, _)
SumTo(f, n) == IF n = 0 THEN 0 ELSE f[n] + SumTo(f, n - 1)

\* tile fetches open at this instant, over all coordinate tasks
OpenTileFetches == SumTo(open, Len(open))

Admitted == { i \in 1..Len(acq) : acq[i] = "fetching" }

\* C5 as stated: with limiter capacity C and N > C coordinate acquisitions
\* submitted together, the number of tile fetches open at one instant never
\* exceeds C.
C5_OpenFetchesWithinCapacity == OpenTileFetches <= MAX_CONCURRENT_REQUESTS

\* C5 as amended: at most C of the N > C coordinate acquisitions are
\* admitted at one instant, and the tile fetches open on their behalf never
\* exceed tiles_needed * tiles_needed (nine) per admitted acquisition, that
\* is 9 * C in all.
C5_OpenFetchesWithinNineTimesCapacity ==
    /\ Cardinality(Admitted) <= MAX_CONCURRENT_REQUESTS
    /\ OpenTileFetches <= tiles_needed * tiles_needed * MAX_CONCURRENT_REQUESTS
    /\ \A i \in 1..Len(acq) : open[i] > 0 => i \in Admitted

\* C permits are out, all their tile fetches are open, and a coordinate waits
C5_Witness ==
    /\ Cardinality(Admitted) = MAX_CONCURRENT_REQUESTS
    /\ OpenTileFetches = tiles_needed * tiles_needed * MAX_CONCURRENT_REQUESTS
    /\ \E i \in 1..Len(acq) : acq[i] = "waiting"

(***************************************************************************)
(* SpecAcq: one call of download_satellite_image (src/api/main.py), with   *)
(* its nine _download_tile tasks finishing in any order and in any way.    *)
(*                                                                         *)
(* Image.open only identifies a payload (it reads the header); the pixel   *)
(* data are decoded when the image is first used, which here is            *)
(* combined_image.paste at line 208, outside the try block of              *)
(* _download_tile.  A payload with a valid header and truncated data       *)
(* therefore leaves _download_tile as a tile image and fails in paste.     *)
(***************************************************************************)
Cells == (0..(tiles_needed - 1)) \X (0..(tiles_needed - 1))

\* results of lat_lng_to_pixel_in_tile the call is run for
TileInputs ==
    { [x_tile |-> 585661, y_tile |-> 345232, pixel_x |-> 0, pixel_y |-> 0],
      [x_tile |-> 585661, y_tile |-> 345232, pixel_x |-> 255, pixel_y |-> 255] }

\* how one tile request can end: a good tile; the request timing out or the
\* connection failing (line 229); a non-success status (line 230); the body
\* read failing (line 231); a body Image.open cannot identify (line 232); a
\* body that is identified and whose data are cut short
TileOutcomes == {"ok", "timeout", "status", "read_error", "unidentified", "truncated"}

\* Image.new('RGB', (tile_size, tile_size), (128, 128, 128))
gray_tile == [kind |-> "grey", x |-> 0, y |-> 0, complete |-> TRUE]

\* Image.new('RGB', (combined_size, combined_size)): nothing pasted yet
black == [kind |-> "black", x |-> 0, y |-> 0, complete |-> TRUE]

OpenFetch == [img |-> black, i |-> -1, j |-> -1, open |-> TRUE]

\* TileAddress counted from the coordinate's own tile: the neighbourhood
\* starts at the centre tile instead of around it
TileAddress_from_centre(x_tile, y_tile, i, j) == << x_tile + i, y_tile + j >>

\* lines 189-190: the address requested for cell (i, j)
TileAddress(x_tile, y_tile, i, j) ==
    << x_tile - tiles_needed \div 2 + i, y_tile - tiles_needed \div 2 + j >>

\* lines 185-196: tiles_to_download, one entry and one _download_tile task per
\* cell, i in the outer loop and j in the inner one
tiles_to_download(x_tile, y_tile) ==
    [ k \in 1..(tiles_needed * tiles_needed) |->
        LET i == (k - 1) \div tiles_needed
            j == (k - 1) % tiles_needed
        IN  [address |-> TileAddress(x_tile, y_tile, i, j), i |-> i, j |-> j] ]

\* _download_tile: what the task returns for the request of cell (i, j)
download_tile(outcome, address, i, j) ==
    IF outcome \in {"ok", "truncated"}
    THEN [img |-> [kind |-> "tile", x |-> address[1], y |-> address[2],
                   complete |-> outcome = "ok"],
          i |-> i, j |-> j, open |-> FALSE]
    ELSE [img |-> gray_tile, i |-> i, j |-> j, open |-> FALSE]

\* lines 203-208: paste decodes the tile image and raises when it cannot
PasteRaises(results) == \E c \in Cells : ~results[c].img.complete

\* lines 203-208: every result pasted at (i * tile_size, j * tile_size)
Pasted(results) ==
    [ origin \in { << c[1] * tile_size, c[2] * tile_size >> : c \in Cells } |->
        LET here == { c \in Cells :
                        << results[c].i * tile_size, results[c].j * tile_size >> = origin }
        IN  IF here = {} THEN black ELSE results[CHOOSE c \in here : TRUE].img ]

\* the window measured from the canvas origin instead of the middle cell
crop_box_from_canvas_origin(pixel_x, pixel_y, size) ==
    LET left == pixel_x - size \div 2
        top == pixel_y - size \div 2
    IN  [left |-> left, top |-> top, right |-> left + size, bottom |-> top + size]

\* lines 210-217: the crop window of the 3x3 canvas
crop_box(pixel_x, pixel_y, size) ==
    LET center_x == (tiles_needed \div 2) * tile_size + pixel_x
        center_y == (tiles_needed \div 2) * tile_size + pixel_y
        half_size == size \div 2
        left == center_x - half_size
        top == center_y - half_size
    IN  [left |-> left, top |-> top, right |-> left + size, bottom |-> top + size]

\* Image.crop: the returned image is as wide and as high as the box
CropSize(box) == << box.right - box.left, box.bottom - box.top >>

(***************************************************************************)
(* download_area_image of download_buildings_with_labels_multithreaded.py: *)
(* the tiles of a bounding box are fetched by a thread pool and pasted by  *)
(* the calling thread in the order as_completed yields them.               *)
(***************************************************************************)
\* the tile range of a bounding box: tiles_x by tiles_y tiles from
\* (min_x_tile, min_y_tile), MaxAreaTiles tiles at most
AreaInputs ==
    { a \in [min_x_tile : {585660}, min_y_tile : {345231},
             tiles_x : 1..MaxAreaTiles, tiles_y : 1..MaxAreaTiles] :
        a.tiles_x * a.tiles_y <= MaxAreaTiles }

AreaCells(a) == (0..(a.tiles_x - 1)) \X (0..(a.tiles_y - 1))

Pending == [i |-> -1, j |-> -1, img |-> black, success |-> FALSE, st |-> "pending"]

\* download_tile (lines 89-104): (i, j, tile_img, True) or (i, j, gray_tile, False)
area_download_tile(outcome, tx, ty, i, j) ==
    IF outcome \in {"ok", "truncated"}
    THEN [i |-> i, j |-> j,
          img |-> [kind |-> "tile", x |-> tx, y |-> ty, complete |-> outcome = "ok"],
          success |-> TRUE, st |-> "done"]
    ELSE [i |-> i, j |-> j, img |-> gray_tile, success |-> FALSE, st |-> "done"]

\* the result pasted at the first origin, in the order of the loops, that has
\* no paste yet: the place follows the arrival, not the (i, j) of the result
area_paste_in_arrival_order(canvas, result) ==
    LET free == { o \in DOMAIN canvas : canvas[o].writes = 0 }
        first == CHOOSE o \in free : \A u \in free : o[1] < u[1] \/ (o[1] = u[1] /\ o[2] <= u[2])
    IN  [canvas EXCEPT ![first] = [img |-> result.img, writes |-> @.writes + 1]]

\* line 149: combined_image.paste(tile_img, (i * tile_size, j * tile_size))
area_paste(canvas, result) ==
    [canvas EXCEPT ![<< result.i * tile_size, result.j * tile_size >>] =
        [img |-> result.img, writes |-> @.writes + 1]]

AcqInit ==
    /\ started = FALSE
    /\ artifact = "ok"
    /\ MODEL = "None"
    /\ SEMAPHORE = 0
    /\ RequestsIdle
    /\ FanIdle
    /\ \/ /\ acqPc = "call"
          /\ tile_in \in TileInputs
          /\ requests = <<>>
          /\ tile_results = <<>>
          /\ combined_image = <<>>
          /\ cropped = <<>>
          /\ AreaIdle
       \/ /\ AcqIdle
          /\ areaPc = "call"
          /\ area_in \in AreaInputs
          /\ futures = <<>>
          /\ area_image = <<>>
          /\ downloaded = 0
    /\ CropIdle
    /\ EquivIdle
    /\ ScriptsIdle

AcqFrame == UNCHANGED << svcVars, fanVars, areaVars, cropVars, eqVars, scriptVars >>

AreaFrame == UNCHANGED << svcVars, fanVars, acqVars, cropVars, eqVars, scriptVars, area_in >>

\* lines 175-199: the canvas is created and the nine tile tasks are gathered
GatherTiles ==
    /\ acqPc = "call"
    /\ acqPc' = "gathering"
    /\ tile_results' = [c \in Cells |-> OpenFetch]
    /\ combined_image' = Pasted([c \in Cells |-> OpenFetch])
    /\ requests' = tiles_to_download(tile_in.x_tile, tile_in.y_tile)
    /\ UNCHANGED << tile_in, cropped >>
    /\ AcqFrame

\* one _download_tile task ends, in one of the ways a request can end; the
\* task made its one request and makes no other
DownloadTile(c, outcome) ==
    /\ acqPc = "gathering"
    /\ tile_results[c].open
    /\ tile_results' = [tile_results EXCEPT ![c] =
                          download_tile(outcome,
                                        TileAddress(tile_in.x_tile, tile_in.y_tile, c[1], c[2]),
                                        c[1], c[2])]
    /\ UNCHANGED << acqPc, tile_in, requests, combined_image, cropped >>
    /\ AcqFrame

\* lines 199-223: the gather is complete; the results are pasted and the
\* canvas is cropped, or paste raises and the call ends with that exception
PasteAndCrop ==
    /\ acqPc = "gathering"
    /\ \A c \in Cells : ~tile_results[c].open
    /\ IF PasteRaises(tile_results)
       THEN /\ acqPc' = "raised"
            /\ UNCHANGED << combined_image, cropped >>
       ELSE /\ acqPc' = "returned"
            /\ combined_image' = Pasted(tile_results)
            /\ cropped' = [box |-> crop_box(tile_in.pixel_x, tile_in.pixel_y, IMG_SIZE),
                           size |-> CropSize(crop_box(tile_in.pixel_x, tile_in.pixel_y, IMG_SIZE))]
    /\ UNCHANGED << tile_in, requests, tile_results >>
    /\ AcqFrame

\* lines 107-143: the canvas is created and one download_tile task per cell
\* is submitted to the pool
AreaSubmit ==
    /\ areaPc = "call"
    /\ areaPc' = "downloading"
    /\ futures' = [c \in AreaCells(area_in) |-> Pending]
    /\ area_image' = [o \in { << c[1] * tile_size, c[2] * tile_size >> : c \in AreaCells(area_in) } |->
                        [img |-> black, writes |-> 0]]
    /\ downloaded' = 0
    /\ AreaFrame

\* a worker thread finishes download_tile for cell c
AreaTileDone(c, outcome) ==
    /\ areaPc = "downloading"
    /\ c \in DOMAIN futures
    /\ futures[c].st = "pending"
    /\ futures' = [futures EXCEPT ![c] =
                     area_download_tile(outcome, area_in.min_x_tile + c[1],
                                        area_in.min_y_tile + c[2], c[1], c[2])]
    /\ UNCHANGED << areaPc, area_image, downloaded >>
    /\ AreaFrame

\* lines 147-154: as_completed yields a finished future and the calling
\* thread pastes its tile, then counts it if download_tile flagged it as
\* fetched; paste decodes the image and raises when it cannot
AreaPaste(c) ==
    /\ areaPc = "downloading"
    /\ c \in DOMAIN futures
    /\ futures[c].st = "done"
    /\ IF futures[c].img.complete
       THEN /\ area_image' = area_paste(area_image, futures[c])
            /\ futures' = [futures EXCEPT ![c].st = "pasted"]
            /\ downloaded' = IF futures[c].success THEN downloaded + 1 ELSE downloaded
            /\ UNCHANGED areaPc
       ELSE /\ areaPc' = "raised"
            /\ UNCHANGED << futures, area_image, downloaded >>
    /\ AreaFrame

\* lines 157-162: every future was yielded; the canvas is returned to the
\* caller, which crops the buildings out of it
AreaReturn ==
    /\ areaPc = "downloading"
    /\ \A c \in DOMAIN futures : futures[c].st = "pasted"
    /\ areaPc' = "returned"
    /\ UNCHANGED << futures, area_image, downloaded >>
    /\ AreaFrame

AcqNext ==
    \/ GatherTiles
    \/ \E c \in Cells, outcome \in TileOutcomes : DownloadTile(c, outcome)
    \/ PasteAndCrop
    \/ AreaSubmit
    \/ \E c \in (0..(MaxAreaTiles - 1)) \X (0..(MaxAreaTiles - 1)), outcome \in TileOutcomes :
          AreaTileDone(c, outcome)
    \/ \E c \in (0..(MaxAreaTiles - 1)) \X (0..(MaxAreaTiles - 1)) : AreaPaste(c)
    \/ AreaReturn

SpecAcq == AcqInit /\ [][AcqNext]_vars

\* a cell whose request failed: the filler was substituted, or the payload
\* was malformed (cut short)
FetchFailed(c) == tile_results[c].img.kind = "grey" \/ ~tile_results[c].img.complete

\* C7: whichever of the nine tile requests fail, and however (timeout,
\* non-success status, malformed or undecodable payload), the acquisition
\* does not raise: an image is returned in which every failed cell holds the
\* grey filler and every other cell its real tile.
C7_TileFailuresNeverRaise ==
    acqPc \in {"returned", "raised"} =>
        /\ acqPc = "returned"
        /\ \A c \in Cells :
            LET at == combined_image[<< c[1] * tile_size, c[2] * tile_size >>]
            IN  IF FetchFailed(c)
                THEN at = gray_tile
                ELSE at = [kind |-> "tile",
                           x |-> TileAddress(tile_in.x_tile, tile_in.y_tile, c[1], c[2])[1],
                           y |-> TileAddress(tile_in.x_tile, tile_in.y_tile, c[1], c[2])[2],
                           complete |-> TRUE]

\* download_satellite_image: the canvas holds, at the origin of every cell,
\* the result of that cell's task, and exactly one result goes to each origin
GatheredCanvasComplete ==
    \A c \in Cells :
        /\ ~tile_results[c].open
        /\ Cardinality({ d \in Cells : << tile_results[d].i, tile_results[d].j >> = c }) = 1
        /\ combined_image[<< c[1] * tile_size, c[2] * tile_size >>] = tile_results[c].img
        /\ tile_results[c].img.kind = "tile" =>
            << tile_results[c].img.x, tile_results[c].img.y >> =
                TileAddress(tile_in.x_tile, tile_in.y_tile, c[1], c[2])

\* download_area_image: the same of the area canvas and the futures
AreaCanvasComplete ==
    \A c \in DOMAIN futures :
        LET at == area_image[<< c[1] * tile_size, c[2] * tile_size >>]
        IN  /\ futures[c].st = "pasted"
            /\ at.writes = 1
            /\ at.img = futures[c].img
            /\ at.img.kind = "tile" =>
                << at.img.x, at.img.y >> = << area_in.min_x_tile + c[1], area_in.min_y_tile + c[2] >>

\* C18: whatever the order in which the tile fetches of one canvas finish,
\* the canvas handed on holds in each cell (i, j) the tile fetched for that
\* cell (or its filler), written there exactly once, and it is cropped, or
\* returned for cropping, only after every fetch of the neighbourhood has
\* finished; whether the call returns depends on the tiles, not on their order.
C18_CompositeIndependentOfOrder ==
    /\ acqPc = "returned" => GatheredCanvasComplete
    /\ acqPc \in {"call", "gathering", "raised"} => cropped = << >>
    /\ acqPc = "raised" => \E c \in Cells : ~tile_results[c].img.complete
    /\ areaPc = "returned" => AreaCanvasComplete
    /\ areaPc = "raised" => \E c \in DOMAIN futures : ~futures[c].img.complete
    /\ areaPc = "downloading" =>
        \A c \in DOMAIN futures :
            area_image[<< c[1] * tile_size, c[2] * tile_size >>].writes =
                IF futures[c].st = "pasted" THEN 1 ELSE 0

\* a two-by-two area canvas returned with a real tile and a filler in it
\* (its four futures were yielded in one of the 24 orders)
C18_Witness ==
    /\ areaPc = "returned"
    /\ area_in.tiles_x = 2
    /\ area_in.tiles_y = 2
    /\ area_image[<< 0, 0 >>].img = gray_tile
    /\ area_image[<< tile_size, 0 >>].img.kind = "tile"
    /\ area_image[<< 0, tile_size >>].img.kind = "tile"

\* C19: one acquisition of a coordinate whose centre tile is (x, y) issues
\* exactly nine tile requests, one for each address (x - 1 + i, y - 1 + j)
\* with i, j in 0..2, and no further request whichever of them fail; the
\* tile of cell (i, j) is placed at (256 * i, 256 * j) of the canvas, so the
\* centre tile lies in the middle cell.
C19_NineRequestsOnePerCell ==
    acqPc \in {"gathering", "returned", "raised"} =>
        /\ Len(requests) = 9
        /\ \A i, j \in 0..2 :
            Cardinality({ k \in 1..Len(requests) :
                            requests[k].address = << tile_in.x_tile - 1 + i, tile_in.y_tile - 1 + j >> }) = 1
        /\ \A k \in 1..Len(requests) :
            requests[k].address = << tile_in.x_tile - 1 + requests[k].i,
                                     tile_in.y_tile - 1 + requests[k].j >>
        /\ acqPc = "returned" =>
            /\ \A i, j \in 0..2 :
                LET at == combined_image[<< 256 * i, 256 * j >>]
                IN  at.kind = "tile" =>
                        (at.x = tile_in.x_tile - 1 + i /\ at.y = tile_in.y_tile - 1 + j)
            /\ \A i, j \in 0..2 :
                tile_results[<< i, j >>].img.kind = "tile" =>
                    combined_image[<< 256 * i, 256 * j >>] = tile_results[<< i, j >>].img

\* the acquisition returned with the centre tile in the middle cell and the
\* tile of a corner request failed and replaced by the filler: nine
\* requests were made and no tenth
C19_Witness ==
    /\ acqPc = "returned"
    /\ Len(requests) = 9
    /\ combined_image[<< 256, 256 >>] =
           [kind |-> "tile", x |-> tile_in.x_tile, y |-> tile_in.y_tile, complete |-> TRUE]
    /\ combined_image[<< 0, 0 >>] = gray_tile
    /\ combined_image[<< 512, 0 >>].kind = "tile"

\* C25: every tile result handed to the compositor carries a success flag,
\* true exactly when the tile is a fetched tile and false exactly when it is
\* the grey filler; the count download_area_image reports equals the number
\* of tiles whose flag is true.
C25_TileResultsCarrySuccessFlag ==
    /\ acqPc \in {"gathering", "returned", "raised"} =>
          \A c \in Cells :
              ~tile_results[c].open =>
                  /\ "success" \in DOMAIN tile_results[c]
                  /\ tile_results[c].success <=> tile_results[c].img # gray_tile
    /\ areaPc \in {"downloading", "returned", "raised"} =>
          \A c \in DOMAIN futures :
              futures[c].st # "pending" =>
                  (futures[c].success <=> futures[c].img # gray_tile)
    /\ areaPc = "returned" =>
          downloaded = Cardinality({ c \in DOMAIN futures : futures[c].success })

(***************************************************************************)
(* SpecCrop: the size of the image download_satellite_image produces, as a *)
(* function of the pixel offset and the requested size, for the 3x3        *)
(* variant of src/api/main.py (direct crop) and the 2x2 variant of         *)
(* src/MapParser/download_building_images.py (clamped crop, then resize).  *)
(* The canvas is created tile_size * tiles_needed wide and high and paste  *)
(* never changes that, so the tiles' contents do not enter the geometry.   *)
(***************************************************************************)
\* requested sizes: the defaults of the two variants, an odd one, and one
\* wider than the 2x2 canvas
Sizes == {100, 101, 128, 600}

PixelOffsets == 0..(tile_size - 1)

\* download_building_images.py lines 89-98: the window clamped to the 2x2 canvas
crop_box_clamped(pixel_x, pixel_y, size) ==
    LET combined_size == tile_size * tiles_needed_2x2
        center_x == (tiles_needed_2x2 \div 2) * tile_size + pixel_x
        center_y == (tiles_needed_2x2 \div 2) * tile_size + pixel_y
        half_size == size \div 2
    IN  [left |-> Max2(0, center_x - half_size),
         top |-> Max2(0, center_y - half_size),
         right |-> Min2(combined_size, center_x + half_size),
         bottom |-> Min2(combined_size, center_y + half_size)]

\* the resize left out: the cropped image is saved as it is
resize_skipped(dims, size) == dims

\* download_building_images.py lines 102-104: resize to exact size if needed
resize_to_exact(dims, size) == IF dims # << size, size >> THEN << size, size >> ELSE dims

\* pixel offsets of the buildings cut out of an area canvas: the two ends of
\* the tile, and offsets on either side of half of each size
AreaPixelOffsets == {0, 49, 50, 63, 64, 128, 191, 192, 206, 255}

\* the calls of extract_building_image: an area canvas of tiles_x by tiles_y
\* tiles and a building whose tile is one of the canvas
ExtractInputs ==
    { e \in [variant : {"area"}, tiles_x : 1..MaxAreaTiles, tiles_y : 1..MaxAreaTiles,
             tile_offset_x : 0..(MaxAreaTiles - 1), tile_offset_y : 0..(MaxAreaTiles - 1),
             pixel_x : AreaPixelOffsets, pixel_y : AreaPixelOffsets, size : Sizes] :
        /\ e.tiles_x * e.tiles_y <= MaxAreaTiles
        /\ e.tile_offset_x < e.tiles_x
        /\ e.tile_offset_y < e.tiles_y }

\* download_buildings_with_labels_multithreaded.py lines 163-183 (and
\* download_buildings_with_labels.py lines 144-167): the window of a building
\* on the area canvas, and whether an image is returned (None otherwise)
extract_building_image(width, height, tile_offset_x, tile_offset_y, pixel_x, pixel_y, size) ==
    LET center_x == tile_offset_x * tile_size + pixel_x
        center_y == tile_offset_y * tile_size + pixel_y
        half_size == size \div 2
        left == Max2(0, center_x - half_size)
        top == Max2(0, center_y - half_size)
        right == Min2(width, left + size)
        bottom == Min2(height, top + size)
    IN  [box |-> [left |-> left, top |-> top, right |-> right, bottom |-> bottom],
         returned |-> ~(right - left < size \/ bottom - top < size)]

CropInit ==
    /\ started = FALSE
    /\ artifact = "ok"
    /\ MODEL = "None"
    /\ SEMAPHORE = 0
    /\ RequestsIdle
    /\ FanIdle
    /\ AcqIdle
    /\ AreaIdle
    /\ cropPc = "call"
    /\ cropIn \in [variant : {"3x3", "2x2"}, pixel_x : PixelOffsets,
                   pixel_y : PixelOffsets, size : Sizes] \cup ExtractInputs
    /\ cropOut = <<>>
    /\ EquivIdle
    /\ ScriptsIdle

CropFrame == UNCHANGED << svcVars, fanVars, acqVars, areaVars, eqVars, scriptVars, cropIn >>

\* src/api/main.py lines 210-223
Crop3x3 ==
    /\ cropPc = "call"
    /\ cropIn.variant = "3x3"
    /\ LET box == crop_box(cropIn.pixel_x, cropIn.pixel_y, cropIn.size)
       IN  cropOut' = [box |-> box, cropped |-> CropSize(box), final |-> CropSize(box)]
    /\ cropPc' = "done"
    /\ CropFrame

\* src/MapParser/download_building_images.py lines 89-106
Crop2x2 ==
    /\ cropPc = "call"
    /\ cropIn.variant = "2x2"
    /\ LET box == crop_box_clamped(cropIn.pixel_x, cropIn.pixel_y, cropIn.size)
       IN  cropOut' = [box |-> box, cropped |-> CropSize(box),
                       final |-> resize_to_exact(CropSize(box), cropIn.size)]
    /\ cropPc' = "done"
    /\ CropFrame

\* extract_building_image on a canvas download_area_image returned
ExtractBuildingImage ==
    /\ cropPc = "call"
    /\ cropIn.variant = "area"
    /\ LET out == extract_building_image(tile_size * cropIn.tiles_x, tile_size * cropIn.tiles_y,
                                         cropIn.tile_offset_x, cropIn.tile_offset_y,
                                         cropIn.pixel_x, cropIn.pixel_y, cropIn.size)
       IN  /\ cropOut' = [box |-> out.box, cropped |-> CropSize(out.box),
                           final |-> CropSize(out.box)]
           /\ cropPc' = IF out.returned THEN "done" ELSE "none"
    /\ CropFrame

CropNext == Crop3x3 \/ Crop2x2 \/ ExtractBuildingImage

SpecCrop == CropInit /\ [][CropNext]_vars

\* C8: the image download_satellite_image produces is exactly size x size,
\* for every pixel offset inside the tile, in the 3x3 variant (direct crop)
\* and in the 2x2 variant (clamped crop followed by the resize).
C8_ImageIsSizeBySize ==
    cropPc = "done" => cropOut.final = << cropIn.size, cropIn.size >>

\* the 2x2 variant with the window cut at the right canvas edge: the crop is
\* narrower than asked and the resize brings it to size x size
C8_Witness ==
    /\ cropPc = "done"
    /\ cropIn.variant = "2x2"
    /\ cropIn.size = 100
    /\ cropOut.box.right = tile_size * tiles_needed_2x2
    /\ cropOut.cropped[1] < cropIn.size
    /\ cropOut.final = << cropIn.size, cropIn.size >>

\* C21: with the 3x3 canvas (768 px), tile edge 256 and output size 128, for
\* every in-tile pixel offset the crop window is [256 + p - 64, 256 + p + 64)
\* on each axis and lies strictly inside the canvas: it never touches a canvas
\* edge, so no clamping is needed.
C21_WindowStrictlyInsideCanvas ==
    (cropPc = "done" /\ cropIn.variant = "3x3" /\ cropIn.size = IMG_SIZE) =>
        LET combined_size == tile_size * tiles_needed
            box == cropOut.box
        IN  /\ box.left = tile_size + cropIn.pixel_x - IMG_SIZE \div 2
            /\ box.right = tile_size + cropIn.pixel_x + IMG_SIZE \div 2
            /\ box.top = tile_size + cropIn.pixel_y - IMG_SIZE \div 2
            /\ box.bottom = tile_size + cropIn.pixel_y + IMG_SIZE \div 2
            /\ 0 < box.left /\ box.right < combined_size
            /\ 0 < box.top /\ box.bottom < combined_size

\* the two extreme offsets at once: the window nearest the left edge and
\* nearest the bottom edge of the canvas
C21_Witness ==
    /\ cropPc = "done"
    /\ cropIn.variant = "3x3"
    /\ cropIn.size = IMG_SIZE
    /\ cropIn.pixel_x = 0
    /\ cropIn.pixel_y = tile_size - 1
    /\ cropOut.box.left = 192
    /\ cropOut.box.bottom = 575

\* the canvas position of the coordinate: the origin of its tile cell plus
\* the pixel offset (the middle cell of the 3x3 canvas, the cell
\* x_tile - min_x_tile, y_tile - min_y_tile of an area canvas)
CanvasCentre ==
    IF cropIn.variant = "area"
    THEN << cropIn.tile_offset_x * tile_size + cropIn.pixel_x,
            cropIn.tile_offset_y * tile_size + cropIn.pixel_y >>
    ELSE << (tiles_needed \div 2) * tile_size + cropIn.pixel_x,
            (tiles_needed \div 2) * tile_size + cropIn.pixel_y >>

\* C22: every image returned for a coordinate is the size x size window
\* centred on the coordinate's canvas position (left = centre - size div 2,
\* top likewise), in the 3x3 crop of download_satellite_image and for every
\* image extract_building_image returns from an area canvas.
C22_WindowCentredOnCoordinate ==
    (cropPc = "done" /\ cropIn.variant \in {"3x3", "area"}) =>
        /\ cropOut.box.left = CanvasCentre[1] - cropIn.size \div 2
        /\ cropOut.box.top = CanvasCentre[2] - cropIn.size \div 2
        /\ cropOut.cropped = << cropIn.size, cropIn.size >>

\* C23: in the clamping 2x2 variant the cropped region differs from
\* size x size (and is resized) only when a clamp to the canvas bounds
\* [0, 512] changed the crop window.
C23_ResizeOnlyAfterClamp ==
    (cropPc = "done" /\ cropIn.variant = "2x2"
        /\ cropOut.cropped # << cropIn.size, cropIn.size >>) =>
        LET center_x == (tiles_needed_2x2 \div 2) * tile_size + cropIn.pixel_x
            center_y == (tiles_needed_2x2 \div 2) * tile_size + cropIn.pixel_y
            half_size == cropIn.size \div 2
        IN  \/ cropOut.box.left # center_x - half_size
            \/ cropOut.box.top # center_y - half_size
            \/ cropOut.box.right # center_x + half_size
            \/ cropOut.box.bottom # center_y + half_size

(***************************************************************************)
(* SpecEquiv: the post-processing of the classifier's output on the two    *)
(* paths.  predict hands model.run one image and reads the whole output    *)
(* (lines 355-365); process_batch hands it a chunk and reads the output    *)
(* row by row through logits[j:j+1] (lines 408-430).  The classifier is    *)
(* any of three output shapes, each row computed from its own image.       *)
(***************************************************************************)
\* the shape of model.run(...)[0] for B images: (B, 2), (B, 1) or (B,)
OutputShapes == {"classes", "column", "flat"}

EquivImages == { << 50, 19 >>, << 51, 20 >>, << 52, 21 >> }

\* model.run(None, {input_name: batch_input})[0] for a classifier of the given
\* output shape: an array of ndim dimensions, one row (or element) per image
model_run(shape, batch_input) ==
    [ndim |-> IF shape = "flat" THEN 1 ELSE 2,
     rows |-> [ j \in 1..Len(batch_input) |->
                 IF shape = "classes" THEN Logits(batch_input[j])
                 ELSE << batch_input[j][1] - 51 >> ]]

\* 1.0 / (1.0 + np.exp(-x)), in thousandths
Sigmoid(x) == (1000 * 1000) \div (1000 + Exp(-x))

\* logits[j:j+1]: the slice keeps the number of dimensions
Slice(logits, j) == [ndim |-> logits.ndim, rows |-> << logits.rows[j] >>]

\* lines 360-365: prob_asbestos in predict, from the output for one image
predict_prob_asbestos(logits) ==
    IF logits.ndim = 2 /\ Len(logits.rows[1]) > 1
    THEN PositiveClassProbability(logits.rows[1])
    ELSE Sigmoid(logits.rows[1][1])

\* prob_asbestos of row j with the softmax taken over the whole chunk
\* (np.max and np.sum without axis=1)
process_batch_prob_asbestos_chunk_norm(logits, j) ==
    IF logits.ndim = 2 /\ Len(logits.rows[1]) > 1
    THEN LET RECURSIVE ChunkMax(_)
             ChunkMax(n) == IF n = 1 THEN Max2(logits.rows[1][1], logits.rows[1][2])
                            ELSE Max2(Max2(logits.rows[n][1], logits.rows[n][2]), ChunkMax(n - 1))
             m == ChunkMax(Len(logits.rows))
             RECURSIVE Total(_)
             Total(n) == IF n = 0 THEN 0
                         ELSE Exp(logits.rows[n][1] - m) + Exp(logits.rows[n][2] - m) + Total(n - 1)
         IN  (Exp(logits.rows[j][2] - m) * 1000) \div Total(Len(logits.rows))
    ELSE Sigmoid(logits.rows[j][1])

\* lines 419-428: prob_asbestos in process_batch, from row j of the chunk's output
process_batch_prob_asbestos(logits, j) ==
    LET logit == Slice(logits, j)
    IN  IF logit.ndim = 2 /\ Len(logit.rows[1]) > 1
        THEN PositiveClassProbability(logit.rows[1])
        ELSE Sigmoid(logit.rows[1][1])

\* lines 395-398 with the chunk size K in place of MAX_INFERENCE_BATCH_SIZE
SplitEvery(images, K) ==
    LET n == Len(images)
        nb == (n + K - 1) \div K
    IN  [ b \in 1..nb |-> SubSeq(images, (b - 1) * K + 1, Min2(b * K, n)) ]

\* _batch_inference for a classifier of the given output shape and chunk size K
batch_inference(shape, images, K) ==
    LET chunks == SplitEvery(images, K)
    IN  Flatten([ b \in 1..Len(chunks) |->
                    LET logits == model_run(shape, chunks[b])
                    IN  [ j \in 1..Len(chunks[b]) |-> process_batch_prob_asbestos(logits, j) ] ])

EquivInit ==
    /\ started = FALSE
    /\ artifact = "ok"
    /\ MODEL = "None"
    /\ SEMAPHORE = 0
    /\ RequestsIdle
    /\ FanIdle
    /\ AcqIdle
    /\ AreaIdle
    /\ CropIdle
    /\ eqIn \in [shape : OutputShapes,
                 images : SeqsUpTo(EquivImages, MaxImages) \ { << >> },
                 K : 1..MaxChunk]
    /\ eqSingle = << >>
    /\ eqChunked = [done |-> FALSE, scores |-> << >>]
    /\ ScriptsIdle

EquivFrame == UNCHANGED << svcVars, fanVars, acqVars, areaVars, cropVars, scriptVars, eqIn >>

\* predict's inference for the next image: model.run on that image alone
PredictOne ==
    /\ Len(eqSingle) < Len(eqIn.images)
    /\ LET input_np == << eqIn.images[Len(eqSingle) + 1] >>
       IN  eqSingle' = Append(eqSingle, predict_prob_asbestos(model_run(eqIn.shape, input_np)))
    /\ UNCHANGED eqChunked
    /\ EquivFrame

\* _batch_inference on all the images, in chunks of eqIn.K
BatchInferenceChunked ==
    /\ ~eqChunked.done
    /\ eqChunked' = [done |-> TRUE, scores |-> batch_inference(eqIn.shape, eqIn.images, eqIn.K)]
    /\ UNCHANGED eqSingle
    /\ EquivFrame

EquivNext == PredictOne \/ BatchInferenceChunked

SpecEquiv == EquivInit /\ [][EquivNext]_vars

\* C11: for a classifier that scores each image on its own, the images
\* classified one at a time (predict) and in chunks of any size K >= 1
\* (_batch_inference) get the same scores, image by image: the positive-class
\* softmax probability for a multi-class output, the sigmoid for a single logit.
C11_ChunkedEqualsOneAtATime ==
    eqChunked.done =>
        /\ Len(eqChunked.scores) = Len(eqIn.images)
        /\ \A k \in 1..Len(eqSingle) :
            /\ eqSingle[k] = eqChunked.scores[k]
            /\ eqSingle[k] = IF eqIn.shape = "classes"
                             THEN PositiveClassProbability(Logits(eqIn.images[k]))
                             ELSE Sigmoid(eqIn.images[k][1] - 51)

\* three images that do not all score the same, in chunks of two (a full
\* chunk and a short one), all of them also classified one at a time
C11_Witness ==
    /\ eqChunked.done
    /\ eqIn.shape = "classes"
    /\ eqIn.K = 2
    /\ Len(eqIn.images) = 3
    /\ Len(eqSingle) = 3
    /\ eqSingle[1] # eqSingle[2]


(***************************************************************************)
(* SpecMapper: one call of lat_lng_to_pixel_in_tile at the pipeline zoom,  *)
(* over latitudes and longitudes of the declared domain, its ends and the  *)
(* latitudes on either side of the Mercator limit included.                *)
(***************************************************************************)
MapperLats == {-90, -86, -85, -50, 0, 50, 52, 85, 86, 89, 90}

MapperLngs == {-180, -179, -1, 0, 19, 21, 179, 180}

\* nothing of the service or of the acquisition code is running
AtRest ==
    /\ started = FALSE
    /\ artifact = "ok"
    /\ MODEL = "None"
    /\ SEMAPHORE = 0
    /\ RequestsIdle
    /\ FanIdle
    /\ AcqIdle
    /\ AreaIdle
    /\ CropIdle
    /\ EquivIdle

MapInit ==
    /\ AtRest
    /\ mapIn \in [lat : MapperLats, lng : MapperLngs]
    /\ mapOut = << >>
    /\ FetchIdle
    /\ TilesIdle

MapFrame == UNCHANGED << svcVars, fanVars, acqVars, areaVars, cropVars, eqVars,
                         fetchVars, gtVars, mapIn >>

\* src/api/main.py lines 160-172, called with zoom=ZOOM (line 177)
LatLngToPixelInTile ==
    /\ mapIn # << >>
    /\ mapOut = << >>
    /\ mapOut' = lat_lng_to_pixel_in_tile(mapIn.lat, mapIn.lng, ZOOM)
    /\ MapFrame

MapNext == LatLngToPixelInTile

SpecMapper == MapInit /\ [][MapNext]_vars

\* C24: for every latitude in [-90, 90] and longitude in [-180, 180], at the
\* pipeline zoom, lat_lng_to_pixel_in_tile returns pixel offsets in 0..255
\* on both axes and a tile address with x and y in 0..2^zoom - 1, the
\* boundary longitudes and the latitudes beyond the Mercator limit included.
C24_MapperStaysInRange ==
    mapOut # << >> =>
        /\ mapOut[1] \in 0..(Pow2(ZOOM) - 1)
        /\ mapOut[2] \in 0..(Pow2(ZOOM) - 1)
        /\ mapOut[3] \in 0..(tile_size - 1)
        /\ mapOut[4] \in 0..(tile_size - 1)


(***************************************************************************)
(* SpecFetch: one call of fetch_buildings (src/MapParser/                  *)
(* overpass_fetcher.py).  Each requests.post ends in one of the ways the   *)
(* except clauses of lines 71-93 tell apart; time.sleep returns.           *)
(***************************************************************************)
\* the building tag of an element of the response, as the filter of line 66
\* sees it: in ALLOWED_BUILDING_TYPES or not
BuildingTags == {"allowed", "other"}

\* the tables a response is parsed to, one row per element with a geometry
ParsedResponses == SeqsUpTo(BuildingTags, MaxElements)

\* statuses raise_for_status raises HTTPError for
ErrorStatuses == {404, 429, 500, 504}

\* gdf[gdf['building'].isin(ALLOWED_BUILDING_TYPES)], rows kept in order
RECURSIVE isin_allowed(_)
isin_allowed(gdf) ==
    IF gdf = << >> THEN << >>
    ELSE IF gdf[1] = "allowed" THEN << gdf[1] >> \o isin_allowed(Tail(gdf))
    ELSE isin_allowed(Tail(gdf))

\* a retry whatever the attempt
retry_allowed_on_every_attempt(attempt_) == TRUE

\* lines 73 and 81: attempt < MAX_RETRIES - 1
retry_allowed(attempt_) == attempt_ < MAX_RETRIES - 1

\* the same wait before every retry
wait_time_flat(after, attempt_) == IF after = "timeout" THEN 5 ELSE 10

\* lines 74 and 82: 5 * (attempt + 1) after a timeout, 10 * (attempt + 1)
\* after a 504
wait_time(after, attempt_) ==
    IF after = "timeout" THEN 5 * (attempt_ + 1) ELSE 10 * (attempt_ + 1)

\* what fetch_buildings returns: a table, or None
ReturnTable(gdf) == [value |-> "gdf", gdf |-> gdf]

ReturnNone == [value |-> "None", gdf |-> << >>]

NotReturned == [value |-> "pending", gdf |-> << >>]

FetchInit ==
    /\ AtRest
    /\ MapIdle
    /\ TilesIdle
    /\ fetchPc = "attempt"
    /\ attempt = 0
    /\ posts = << >>
    /\ sleeps = << >>
    /\ fetched = NotReturned

FetchFrame == UNCHANGED << svcVars, fanVars, acqVars, areaVars, cropVars, eqVars,
                           mapVars, gtVars >>

\* lines 56-69: the response arrives with a success status, is parsed and
\* filtered, and the table is returned
PostSuccess(gdf) ==
    /\ fetchPc = "attempt"
    /\ attempt < MAX_RETRIES
    /\ posts' = Append(posts, [outcome |-> "success", status_code |-> 200, rows |-> Len(gdf)])
    /\ fetched' = ReturnTable(IF gdf # << >> THEN isin_allowed(gdf) ELSE gdf)
    /\ fetchPc' = "returned"
    /\ UNCHANGED << attempt, sleeps >>
    /\ FetchFrame

\* lines 71-79: requests.exceptions.Timeout
PostTimeout ==
    /\ fetchPc = "attempt"
    /\ attempt < MAX_RETRIES
    /\ posts' = Append(posts, [outcome |-> "timeout", status_code |-> 0, rows |-> 0])
    /\ IF retry_allowed(attempt)
       THEN /\ sleeps' = Append(sleeps, wait_time("timeout", attempt))
            /\ fetchPc' = "sleeping"
            /\ UNCHANGED fetched
       ELSE /\ fetched' = ReturnNone
            /\ fetchPc' = "returned"
            /\ UNCHANGED sleeps
    /\ UNCHANGED attempt
    /\ FetchFrame

\* lines 57 and 80-87: raise_for_status raised HTTPError
PostHTTPError(status_code) ==
    /\ fetchPc = "attempt"
    /\ attempt < MAX_RETRIES
    /\ posts' = Append(posts, [outcome |-> IF status_code = 504 THEN "http_504" ELSE "http_error",
                                status_code |-> status_code, rows |-> 0])
    /\ IF status_code = 504 /\ retry_allowed(attempt)
       THEN /\ sleeps' = Append(sleeps, wait_time("http_504", attempt))
            /\ fetchPc' = "sleeping"
            /\ UNCHANGED fetched
       ELSE /\ fetched' = ReturnNone
            /\ fetchPc' = "returned"
            /\ UNCHANGED sleeps
    /\ UNCHANGED attempt
    /\ FetchFrame

\* lines 88-90: another requests.exceptions.RequestException (connection
\* refused, too many redirects, ...)
PostRequestException ==
    /\ fetchPc = "attempt"
    /\ attempt < MAX_RETRIES
    /\ posts' = Append(posts, [outcome |-> "request_error", status_code |-> 0, rows |-> 0])
    /\ fetched' = ReturnNone
    /\ fetchPc' = "returned"
    /\ UNCHANGED << attempt, sleeps >>
    /\ FetchFrame

\* lines 59-67 and 91-93: the response arrived and decoding, parsing or
\* filtering it raised
PostProcessingError ==
    /\ fetchPc = "attempt"
    /\ attempt < MAX_RETRIES
    /\ posts' = Append(posts, [outcome |-> "processing_error", status_code |-> 200, rows |-> 0])
    /\ fetched' = ReturnNone
    /\ fetchPc' = "returned"
    /\ UNCHANGED << attempt, sleeps >>
    /\ FetchFrame

\* lines 76 and 84, then line 53: time.sleep returns and the loop goes on to
\* the next attempt
NextAttempt ==
    /\ fetchPc = "sleeping"
    /\ attempt' = attempt + 1
    /\ fetchPc' = "attempt"
    /\ UNCHANGED << posts, sleeps, fetched >>
    /\ FetchFrame

FetchNext ==
    \/ \E gdf \in ParsedResponses : PostSuccess(gdf)
    \/ PostTimeout
    \/ \E status_code \in ErrorStatuses : PostHTTPError(status_code)
    \/ PostRequestException
    \/ PostProcessingError
    \/ NextAttempt

SpecFetch == FetchInit /\ [][FetchNext]_vars

\* requests.post is given timeout=TIMEOUT and time.sleep a finite time: the
\* step the call is at is taken
SpecFetchFair == SpecFetch /\ WF_vars(FetchNext)


\* the explicit results of fetch_buildings: a table of buildings, or None
FetchResults == { ReturnTable(g) : g \in SeqsUpTo({"allowed"}, MaxElements) } \cup {ReturnNone}

\* C28: fetch_buildings sends at most MAX_RETRIES requests per call and
\* always terminates with an explicit result, a building table or None,
\* however each attempt ends (success, timeout, HTTP 504, other HTTP error,
\* other request error, processing error).
C28_AtMostMaxRetriesAndTerminates ==
    /\ [](Len(posts) <= MAX_RETRIES)
    /\ [](fetchPc = "returned" => fetched \in FetchResults)
    /\ <>(fetchPc = "returned")

\* the third request was sent and answered with a table, after a timeout and
\* a 504
C28_Witness ==
    /\ fetchPc = "returned"
    /\ Len(posts) = MAX_RETRIES
    /\ posts[1].outcome = "timeout"
    /\ posts[2].outcome = "http_504"
    /\ posts[3].outcome = "success"
    /\ fetched = ReturnTable(<< "allowed", "allowed" >>)

Retried == {"timeout", "http_504"}

\* C29: fetch_buildings re-sends the request only after a timeout or a 504
\* on a non-final attempt; a success, another HTTP error, another request
\* error or a processing error ends the call at once; a timeout or 504 on
\* the final attempt returns None; before the retry that follows attempt k
\* it waits 5*k seconds after a timeout and 10*k seconds after a 504.
C29_RetryOnlyAfterTimeoutOr504 ==
    /\ \A k \in 1..Len(posts) :
          /\ k < Len(posts) => (posts[k].outcome \in Retried /\ k < MAX_RETRIES)
          /\ (posts[k].outcome \notin Retried /\ k = Len(posts)) =>
                /\ fetchPc = "returned"
                /\ posts[k].outcome = "success" <=> fetched.value = "gdf"
                /\ posts[k].outcome # "success" <=> fetched = ReturnNone
          /\ (posts[k].outcome \in Retried /\ k = MAX_RETRIES) =>
                (fetchPc = "returned" /\ fetched = ReturnNone)
          /\ (posts[k].outcome \in Retried /\ k < MAX_RETRIES) =>
                /\ k <= Len(sleeps)
                /\ sleeps[k] = IF posts[k].outcome = "timeout" THEN 5 * k ELSE 10 * k
                /\ fetchPc # "returned" \/ k < Len(posts)
    /\ Len(sleeps) <= Len(posts)
    /\ \A k \in 1..Len(sleeps) : posts[k].outcome \in Retried

\* a timeout, a 504 and a timeout on the final attempt: waits of 5 s and
\* 20 s, and None
C29_Witness ==
    /\ fetchPc = "returned"
    /\ Len(posts) = MAX_RETRIES
    /\ posts[1].outcome = "timeout"
    /\ posts[2].outcome = "http_504"
    /\ posts[3].outcome = "timeout"
    /\ sleeps = << 5, 20 >>
    /\ fetched = ReturnNone


(***************************************************************************)
(* SpecTiles: the scan of generate_tiles (src/MapParser/tile_generator.py) *)
(* over the bounding box of the buildings.  Coordinates are whole numbers  *)
(* of map units and the box starts at (0, 0); rendering a tile (lines      *)
(* 39-77) does not change x, y or step.                                    *)
(***************************************************************************)
\* the tile boxes a scan that ends builds are MaxExtent * MaxExtent at most;
\* a scan is followed for one box more
MaxTileBoxes == MaxExtent * MaxExtent + 1

GenerateTilesInputs ==
    [empty : BOOLEAN, max_x : 1..MaxExtent, max_y : 1..MaxExtent,
     tile_size : 1..MaxTileSize, overlap : 0..MaxOverlap]

\* line 27
step(tile_size_, overlap) == IF overlap = 0 THEN tile_size_ ELSE tile_size_ - overlap

TilesInit ==
    /\ AtRest
    /\ MapIdle
    /\ FetchIdle
    /\ gtPc = "call"
    /\ gtIn \in GenerateTilesInputs
    /\ scan_x = 0
    /\ scan_y = 0
    /\ tile_boxes = << >>

TilesFrame == UNCHANGED << svcVars, fanVars, acqVars, areaVars, cropVars, eqVars,
                           mapVars, fetchVars, gtIn >>

\* lines 10-32: nothing to do for an empty table; otherwise y = min_y
GenerateTilesCall ==
    /\ gtPc = "call"
    /\ gtPc' = IF gtIn.empty THEN "returned" ELSE "row"
    /\ scan_y' = 0
    /\ UNCHANGED << scan_x, tile_boxes >>
    /\ TilesFrame

\* lines 33-34: "while y < max_y": x = min_x, or the scan is over (lines 82-84)
RowTest ==
    /\ gtPc = "row"
    /\ IF scan_y < gtIn.max_y
       THEN /\ gtPc' = "tile"
            /\ scan_x' = 0
       ELSE /\ gtPc' = "returned"
            /\ UNCHANGED scan_x
    /\ UNCHANGED << scan_y, tile_boxes >>
    /\ TilesFrame

\* lines 35-79: "while x < max_x": the tile box at (x, y) is built and
\* x += step
TileStep ==
    /\ gtPc = "tile"
    /\ scan_x < gtIn.max_x
    /\ Len(tile_boxes) < MaxTileBoxes
    /\ tile_boxes' = Append(tile_boxes, << scan_x, scan_y >>)
    /\ scan_x' = scan_x + step(gtIn.tile_size, gtIn.overlap)
    /\ UNCHANGED << gtPc, scan_y >>
    /\ TilesFrame

\* lines 35 and 80: the row is over and y += step
RowEnd ==
    /\ gtPc = "tile"
    /\ scan_x >= gtIn.max_x
    /\ gtPc' = "row"
    /\ scan_y' = scan_y + step(gtIn.tile_size, gtIn.overlap)
    /\ UNCHANGED << scan_x, tile_boxes >>
    /\ TilesFrame

TilesNext == GenerateTilesCall \/ RowTest \/ TileStep \/ RowEnd

SpecTiles == TilesInit /\ [][TilesNext]_vars

\* C30: generate_tiles terminates for every non-empty building set, every
\* tile_size > 0 and every overlap >= 0: the scan position strictly
\* increases on both axes at each step, so that each grid origin is visited
\* exactly once and the nested loops end.
C30_ScanAdvances ==
    [][ /\ (gtPc = "tile" /\ gtPc' = "tile") => scan_x' > scan_x
        /\ (gtPc = "tile" /\ gtPc' = "row") => scan_y' > scan_y
        /\ \A m, n \in 1..Len(tile_boxes') : tile_boxes'[m] = tile_boxes'[n] => m = n ]_vars

====
